---- MODULE Spec2Model ----
(***************************************************************************)
(* A model of the DICOM adapter (src/honeypots/dicom_server.py) and of the  *)
(* HL7 adapter (src/honeypots/hl7_server.py) of honeypots as a state       *)
(* machine: the event sink's log, the diagnostics, and the handlers the    *)
(* protocol engines call.                                                  *)
(*                                                                         *)
(* Python values are modelled as follows.  An optional value is a sequence *)
(* of length 0 (None) or 1 (the value).  A bytes object is a sequence of   *)
(* integers 0..255.  A dict is a function from its keys.  A value the sink *)
(* logs as text is a string, "None" for None.                              *)
(***************************************************************************)
EXTENDS Integers, Sequences, FiniteSets, TLC

VARIABLES
    events,      \* the sink's log: what _q_s.log was called with, in order
    diag,        \* the diagnostics: <<severity, origin>> of _q_s.logger calls
    peer,        \* event.assoc.requestor of the session
    gen,         \* the C-GET / C-MOVE generator: op, identifier, position
    replies,     \* the steps the generator has yielded so far
    cancelFlag,  \* event.is_cancelled as the engine holds it
    cancelAt,    \* history: how many steps had been yielded when the peer cancelled
    evMark,      \* history: Len(events) when the current request was triggered
    nRequests,   \* number of query requests triggered so far
    store_images,\* QDicomServer.store_images
    fs,          \* the files under storage_dir: path -> bytes
    store,       \* the last C-STORE request: its inputs and what the handler did
    nStores,     \* number of C-STORE requests handled so far
    sess,        \* the session: where the engine is, and the identity presented
    login,       \* the last call of handle_login: its inputs and how it ended
    checkCalls,  \* the calls of the credential-check collaborator, in order
    hl7,         \* the HL7 connection: where its handler is, the message, the reply
    flat,        \* the last call of _dicom_obj_to_dict: its argument and how it ended
    conc,        \* the C-STORE requests of concurrent sessions: session -> progress
    prevGet,     \* history: the C-GET request before the current one, as it ended
    pipe,        \* one session's two threads: the PDUs on the wire, the primitives queued
    call,        \* the last call of an adapter entry point with a failing sink or event data
    dec,         \* the last call of the decode hook: the PDU and the events it logged
    art          \* the last path handle_store computed: the identifier and the path

getVars == <<gen, replies, cancelFlag, cancelAt, evMark, nRequests>>
storeVars == <<store_images, fs, store, nStores>>
sessVars == <<sess, login, checkCalls>>
auxVars == <<conc, prevGet, pipe, call, dec, art>>
vars == <<events, diag, peer, getVars, storeVars, sessVars, hl7, flat, auxVars>>

----------------------------------------------------------------------------
(* Bounds of the model. *)

\* number of C-GET / C-MOVE requests one behaviour triggers
MaxRequests == 1

\* number of C-STORE requests one behaviour handles
MaxStores == 2

\* number of C-ECHO operations of one session
MaxOps == 1

----------------------------------------------------------------------------
(* Program constants. *)

SUCCESS == 0
FAILURE == 49152
CANCEL == 65024
PENDING == 65280

None == <<>>
Some(v) == <<v>>

\* the demonstration dataset every C-GET returns
GET_REQUEST_DS == "CTImageStorage.dcm"

Peers == { [address |-> "10.0.0.1", port |-> 40000],
           [address |-> "10.0.0.2", port |-> 40001] }

\* the values of the variables before anything was asked of a handler
NoGen == [op |-> "none", identifier |-> None, pc |-> "idle", idx |-> 0]

NoStore == [uid |-> None, file_meta |-> None, dataset |-> None, fault |-> "none",
            handler |-> "none", outcome |-> "none", reply |-> None, path |-> None,
            written |-> 0, evMark |-> 0, diagMark |-> 0]

GetIdle ==
    /\ gen = NoGen
    /\ replies = <<>>
    /\ cancelFlag = FALSE
    /\ cancelAt = None
    /\ evMark = 0
    /\ nRequests = 0

StoreIdle ==
    /\ fs = <<>>
    /\ store = NoStore
    /\ nStores = 0

NoLogin == [user_id_type |-> 0, primary_field |-> <<>>, secondary_field |-> None,
            outcome |-> "none", exc |-> None, result |-> None, evMark |-> 0]

SessIdle ==
    /\ sess = [pc |-> "listening", is_tuple |-> FALSE, identity |-> None, nOps |-> 0,
               send |-> None]
    /\ login = NoLogin
    /\ checkCalls = <<>>

\* the HL7 connection before it is accepted
NoHl7 == [pc |-> "listening", input |-> "none", incoming |-> None, fault |-> "none",
          message |-> None, version |-> None, response |-> None,
          populated |-> FALSE, outcome |-> "none", reply |-> None, evMark |-> 0]

Hl7Idle == hl7 = NoHl7

\* _dicom_obj_to_dict before it is called
FlatIdle == flat = [pc |-> "idle", obj |-> None, exc |-> None, result |-> None]

\* number of sessions that store at the same time
NSessions == 2

Sessions == 1..NSessions

\* a session that has not sent its C-STORE request
NoConc == [pc |-> "idle", uid |-> None, data |-> <<>>, path |-> None, offset |-> 0,
           reply |-> None]

ConcIdle == conc = [s \in Sessions |-> NoConc]

\* no C-GET request has ended yet
PrevGetIdle == prevGet = None

\* the session's socket before the client has sent anything
PipeIdle == pipe = [wire |-> <<>>, queue |-> <<>>, sent |-> <<>>, pc |-> "listening"]

\* before any entry point was called
CallIdle == call = [entry |-> "none"]

\* before the decode hook was called
DecIdle == dec = [pc |-> "idle"]

\* before handle_store computed a path
ArtIdle == art = [pc |-> "idle"]

AuxIdle ==
    /\ ConcIdle
    /\ PrevGetIdle
    /\ PipeIdle
    /\ CallIdle
    /\ DecIdle
    /\ ArtIdle

----------------------------------------------------------------------------
(* Event names.  A name is held as its segments between underscores, so    *)
(* that str.replace is a computation on the name and not a table.          *)

RECURSIVE JoinWith(_, _)
JoinWith(segs, sep) ==
    IF Len(segs) = 0 THEN ""
    ELSE IF Len(segs) = 1 THEN segs[1]
    ELSE segs[1] \o sep \o JoinWith(Tail(segs), sep)

\* name.replace("EVT_", ""): every segment "EVT" that an underscore follows
\* goes, with that underscore
RECURSIVE DropEvtPrefix(_)
DropEvtPrefix(segs) ==
    IF Len(segs) <= 1 THEN segs
    ELSE IF segs[1] = "EVT" THEN DropEvtPrefix(Tail(segs))
    ELSE <<segs[1]>> \o DropEvtPrefix(Tail(segs))

\* event.event.name.replace("EVT_", "").replace("_", "-")
EventAction(name) == JoinWith(DropEvtPrefix(name), "-")

EVT_C_GET == [name |-> <<"EVT", "C", "GET">>, description |-> "C-GET request received"]
EVT_C_MOVE == [name |-> <<"EVT", "C", "MOVE">>, description |-> "C-MOVE request received"]

----------------------------------------------------------------------------
(* The sink (the collaborator of BaseServer) and the diagnostics. *)

\* _q_s.log(event): the sink appends; it never fails observably
Log(log, entry) == Append(log, entry)

\* _log_event: the audit record of an intervention event
_log_event(log, event, additional_data) ==
    LET with_context ==
            IF event.has_context
            THEN ("abstract_syntax" :> event.context.abstract_syntax
                  @@ "transfer_syntax" :> event.context.transfer_syntax)
                 @@ additional_data
            ELSE additional_data
    IN Log(log, [action |-> EventAction(event.event.name),
                 src_ip |-> event.requestor.address,
                 src_port |-> event.requestor.port,
                 data |-> with_context @@ ("description" :> event.event.description)])

----------------------------------------------------------------------------
(* C-GET and C-MOVE.  An identifier is None (no identifier) or a dataset,  *)
(* a function from the keywords it holds to their values.                  *)

QueryKeys == <<"QueryRetrieveLevel", "PatientID", "StudyInstanceUID", "SeriesInstanceUID">>

KeyValues(k) ==
    IF k = "QueryRetrieveLevel" THEN {"PATIENT", "SERIES"}
    ELSE IF k = "PatientID" THEN {"1234567"}
    ELSE IF k = "StudyInstanceUID" THEN {"1.2.3"}
    ELSE {"1.2.3.4"}

QueryKeySet == {QueryKeys[i] : i \in 1..Len(QueryKeys)}

Datasets ==
    UNION { {ds \in [keys -> UNION {KeyValues(k) : k \in QueryKeySet}] :
                \A k \in keys : ds[k] \in KeyValues(k)} : keys \in SUBSET QueryKeySet }

Identifiers == {None} \cup {Some(ds) : ds \in Datasets}

\* getattr(dataset, key, None), as the sink records it
GetAttr(identifier, key) ==
    IF identifier = None THEN "None"
    ELSE IF key \in DOMAIN identifier[1] THEN identifier[1][key]
    ELSE "None"

\* a _log_get_move_event that logs nothing for a request without identifier
_log_get_move_event_of_dataset(log, event) ==
    IF event.identifier = None THEN log
    ELSE _log_event(log, event, [k \in QueryKeySet |-> GetAttr(event.identifier, k)])

\* _log_get_move_event
_log_get_move_event(log, event) ==
    _log_event(log, event, [k \in QueryKeySet |-> GetAttr(event.identifier, k)])

\* not event.identifier or "QueryRetrieveLevel" not in event.identifier
ScopeMissingNoneOnly(identifier) ==
    identifier = None

ScopeMissingUnlessSeries(identifier) ==
    \/ identifier = None
    \/ "QueryRetrieveLevel" \notin DOMAIN identifier[1]
    \/ identifier[1]["QueryRetrieveLevel"] # "SERIES"

ScopeMissing(identifier) ==
    \/ identifier = None
    \/ DOMAIN identifier[1] = {}
    \/ "QueryRetrieveLevel" \notin DOMAIN identifier[1]

\* the reply steps a handler yields
CountStep(n) == [kind |-> "count", n |-> n]
StatusStep(status, payload) == [kind |-> "pair", status |-> status, payload |-> payload]

\* instances = [GET_REQUEST_DS]
TwoInstances == <<GET_REQUEST_DS, GET_REQUEST_DS>>

Instances == <<GET_REQUEST_DS>>

\* event.is_cancelled, read before an instance is yielded
NeverCancelled(flag) == FALSE

IsCancelled(flag) == flag

\* what handle_move yields for a request with a scope: (None, None)
MoveAccepted == StatusStep(Some(SUCCESS), None)

MoveDestination == StatusStep(None, None)

GenEvent(g) ==
    [event |-> IF g.op = "get" THEN EVT_C_GET ELSE EVT_C_MOVE,
     has_context |-> TRUE,
     context |-> [abstract_syntax |->
                      IF g.op = "get" THEN "PatientRootQueryRetrieveInformationModelGet"
                      ELSE "PatientRootQueryRetrieveInformationModelMove",
                  transfer_syntax |-> "ImplicitVRLittleEndian"],
     requestor |-> peer,
     identifier |-> g.identifier]

\* the engine calls the handler bound to EVT_C_GET or EVT_C_MOVE: the call
\* of a generator function runs none of its body
trigger(op, identifier) ==
    /\ gen.pc \in {"idle", "done"}
    /\ nRequests < MaxRequests
    /\ gen' = [op |-> op, identifier |-> identifier, pc |-> "created", idx |-> 0]
    /\ replies' = <<>>
    /\ cancelFlag' = FALSE
    /\ cancelAt' = None
    /\ evMark' = Len(events)
    /\ nRequests' = nRequests + 1
    /\ UNCHANGED <<events, diag, peer, hl7, flat, auxVars, storeVars, sessVars>>

\* the peer's C-CANCEL for the request: the engine sets the flag
peer_cancel ==
    /\ gen.pc \notin {"idle", "done"}
    /\ ~cancelFlag
    /\ cancelFlag' = TRUE
    /\ cancelAt' = Some(Len(replies))
    /\ UNCHANGED <<events, diag, peer, hl7, flat, auxVars, gen, replies, evMark, nRequests, storeVars,
                   sessVars>>

\* handle_get, one resumption of the generator (the engine's next())
handle_get ==
    /\ gen.op = "get"
    /\ gen.pc \notin {"idle", "done"}
    /\ CASE gen.pc = "created" ->
              /\ events' = _log_get_move_event(events, GenEvent(gen))
              /\ IF ScopeMissing(gen.identifier)
                 THEN /\ replies' = Append(replies, StatusStep(Some(FAILURE), None))
                      /\ gen' = [gen EXCEPT !.pc = "failed"]
                 ELSE /\ replies' = Append(replies, CountStep(Len(Instances)))
                      /\ gen' = [gen EXCEPT !.pc = "loop", !.idx = 1]
         [] gen.pc = "loop" ->
              /\ UNCHANGED events
              /\ IF gen.idx > Len(Instances)
                 THEN /\ gen' = [gen EXCEPT !.pc = "done"]
                      /\ UNCHANGED replies
                 ELSE IF IsCancelled(cancelFlag)
                 THEN /\ replies' = Append(replies, StatusStep(Some(CANCEL), None))
                      /\ gen' = [gen EXCEPT !.pc = "cancelled"]
                 ELSE /\ replies' = Append(replies,
                                        StatusStep(Some(PENDING), Some(Instances[gen.idx])))
                      /\ gen' = [gen EXCEPT !.idx = gen.idx + 1]
         [] OTHER ->
              \* resumed after yield FAILURE or yield CANCEL: return
              /\ gen' = [gen EXCEPT !.pc = "done"]
              /\ UNCHANGED <<events, replies>>
    /\ UNCHANGED <<diag, peer, hl7, flat, auxVars, cancelFlag, cancelAt, evMark, nRequests, storeVars,
                   sessVars>>

\* handle_move, one resumption of the generator
handle_move ==
    /\ gen.op = "move"
    /\ gen.pc \notin {"idle", "done"}
    /\ CASE gen.pc = "created" ->
              /\ events' = _log_get_move_event(events, GenEvent(gen))
              /\ IF ScopeMissing(gen.identifier)
                 THEN /\ replies' = Append(replies, StatusStep(Some(FAILURE), None))
                      /\ gen' = [gen EXCEPT !.pc = "failed"]
                 ELSE /\ replies' = Append(replies, MoveDestination)
                      /\ gen' = [gen EXCEPT !.pc = "yielded"]
         [] OTHER ->
              /\ gen' = [gen EXCEPT !.pc = "done"]
              /\ UNCHANGED <<events, replies>>
    /\ UNCHANGED <<diag, peer, hl7, flat, auxVars, cancelFlag, cancelAt, evMark, nRequests, storeVars,
                   sessVars>>

GetInit ==
    /\ events = <<>>
    /\ diag = <<>>
    /\ peer \in Peers
    /\ GetIdle
    /\ store_images = FALSE
    /\ StoreIdle
    /\ SessIdle
    /\ Hl7Idle
    /\ FlatIdle
    /\ AuxIdle

GetNext ==
    \/ \E op \in {"get", "move"}, identifier \in Identifiers : trigger(op, identifier)
    \/ peer_cancel
    \/ handle_get
    \/ handle_move

SpecGet == GetInit /\ [][GetNext]_vars

----------------------------------------------------------------------------
(* The claims about C-GET and C-MOVE, checked under SpecGet. *)

HasScope(identifier) ==
    /\ identifier # None
    /\ "QueryRetrieveLevel" \in DOMAIN identifier[1]

IsPrefix(s, t) == Len(s) <= Len(t) /\ \A i \in 1..Len(s) : s[i] = t[i]

CancelSequence == <<[kind |-> "count", n |-> 1],
                    [kind |-> "pair", status |-> <<CANCEL>>, payload |-> <<>>]>>

PendingSequence == <<[kind |-> "count", n |-> 1],
                     [kind |-> "pair", status |-> <<PENDING>>,
                      payload |-> <<"CTImageStorage.dcm">>]>>

FailureSequence == <<[kind |-> "pair", status |-> <<FAILURE>>, payload |-> <<>>]>>

\* C1 as stated: every C-GET request the engine has run to exhaustion was
\* answered by the count announcement 1 and then exactly one of (CANCEL, None)
\* and (PENDING, payload).
C1_EveryGetRequest ==
    (gen.op = "get" /\ gen.pc = "done") => replies \in {CancelSequence, PendingSequence}

\* C1 as amended: for a C-GET request whose identifier holds QueryRetrieveLevel,
\* the steps yielded so far are a prefix of (count 1, (CANCEL, None)) or of
\* (count 1, (PENDING, payload)); the count is the first step the handler yields,
\* and once the generator is exhausted the steps are exactly one of the two.
C1_GetReplySequence ==
    (gen.op = "get" /\ HasScope(gen.identifier)) =>
        /\ \E s \in {CancelSequence, PendingSequence} : IsPrefix(replies, s)
        /\ gen.pc # "created" => Len(replies) >= 1
        /\ gen.pc = "done" => replies \in {CancelSequence, PendingSequence}

C1_Witness ==
    /\ gen.op = "get"
    /\ HasScope(gen.identifier)
    /\ gen.pc = "done"
    /\ replies = PendingSequence

\* C2: handle_get reads the cancellation flag when it is resumed after the count
\* announcement: a cancellation raised before that resumption (before or after the
\* count was pulled) makes the second step (CANCEL, None) and no payload is ever
\* yielded, the count still being the first step; without one the second step is
\* (PENDING, payload), and a later cancellation changes nothing.
C2_CancelReadAtBoundary ==
    (gen.op = "get" /\ HasScope(gen.identifier)) =>
        /\ Len(replies) >= 1 => replies[1] = [kind |-> "count", n |-> 1]
        /\ Len(replies) >= 2 =>
              replies = IF cancelAt # None /\ cancelAt[1] <= 1
                        THEN CancelSequence ELSE PendingSequence
        /\ (gen.pc = "done" /\ cancelAt # None /\ cancelAt[1] <= 1) =>
              replies = CancelSequence

C2_Witness ==
    /\ gen.op = "get"
    /\ HasScope(gen.identifier)
    /\ gen.pc = "done"
    /\ cancelAt = <<0>>
    /\ replies = CancelSequence

\* C3: a C-GET or C-MOVE request whose identifier is absent, empty or without
\* QueryRetrieveLevel is answered by the single step (FAILURE, None): nothing is
\* yielded before it and nothing after it.
C3_NoScopeFails ==
    (gen.op \in {"get", "move"} /\ ~HasScope(gen.identifier)) =>
        /\ gen.pc = "created" => replies = <<>>
        /\ gen.pc # "created" => replies = FailureSequence

C3_Witness ==
    /\ gen.op = "move"
    /\ gen.identifier # None
    /\ DOMAIN gen.identifier[1] = {"PatientID"}
    /\ gen.pc = "done"
    /\ replies = FailureSequence

\* C4: a C-MOVE request whose identifier holds QueryRetrieveLevel is answered by
\* the single step (None, None), whatever the identifier's values.
C4_MoveDestinationUnknown ==
    (gen.op = "move" /\ HasScope(gen.identifier)) =>
        /\ gen.pc = "created" => replies = <<>>
        /\ gen.pc # "created" =>
              replies = <<[kind |-> "pair", status |-> <<>>, payload |-> <<>>]>>

C4_Witness ==
    /\ gen.op = "move"
    /\ HasScope(gen.identifier)
    /\ gen.identifier[1]["QueryRetrieveLevel"] = "SERIES"
    /\ "PatientID" \in DOMAIN gen.identifier[1]
    /\ gen.pc = "done"
    /\ replies = <<[kind |-> "pair", status |-> <<>>, payload |-> <<>>]>>

----------------------------------------------------------------------------
(* C-STORE.  A file is the sequence of its bytes; fs maps the paths that   *)
(* exist under storage_dir to their files.                                 *)

EVT_C_STORE == [name |-> <<"EVT", "C", "STORE">>, description |-> "C-STORE request received"]

\* QDicomServer.storage_dir when the configuration names none
StorageDir == "/tmp/dicom_storage"

\* b"\x00" * 128
PreambleLen == 128

Preamble == [i \in 1..PreambleLen |-> 0]

\* b"DICM"
Prefix == <<68, 73, 67, 77>>

\* event.request.AffectedSOPInstanceUID: None, or a UID (no path separator in
\* the ones drawn here)
Uids == {None, Some("1.2.3"), Some("1.2.4")}

\* event.file_meta as write_file_meta_info encodes it: None when it cannot be
\* encoded
FileMetas == {None, Some(<<2, 0, 0, 0>>)}

\* event.request.DataSet: None, or the stream whose getvalue() is the payload
DataSets == {None, Some(<<8, 0>>), Some(<<8, 0, 5, 0, 16>>)}

\* where an I/O error strikes, if one does
Faults == {"none", "open", "write_prefix", "write_meta", "write_dataset"}

\* storage_dir / uid, for a UID that holds no separator
OutputFile(uid) == StorageDir \o "/" \o uid

\* output_file.open("wb"): the file is created, or truncated if it exists
OpenAppend(fsys, path) ==
    IF path \in DOMAIN fsys THEN fsys ELSE (path :> <<>>) @@ fsys

OpenWb(fsys, path) == (path :> <<>>) @@ fsys

\* fp.write(data)
Write(fsys, path, data) == (path :> (fsys[path] \o data)) @@ fsys

\* output_file.stat().st_size
StatSize(fsys, path) == Len(fsys[path])

\* except Exception
CatchesOSErrorOnly(exc) == exc = "OSError"

Catches(exc) == TRUE

\* the body of the try of handle_store up to the end of the with block: the
\* files it leaves, the exception it ends with (None: none) and the bytes it wrote
WriteArtifact(fsys, uid, file_meta, dataset, fault) ==
    IF uid = None THEN [fs |-> fsys, exc |-> Some("TypeError"), written |-> 0]
    ELSE IF fault = "open" THEN [fs |-> fsys, exc |-> Some("OSError"), written |-> 0]
    ELSE
    LET path == OutputFile(uid[1])
        opened == OpenWb(fsys, path)
        begun == Write(opened, path, Preamble \o Prefix)
    IN  IF fault = "write_prefix"
        THEN [fs |-> opened, exc |-> Some("OSError"), written |-> 0]
        ELSE IF file_meta = None
        THEN [fs |-> begun, exc |-> Some("ValueError"), written |-> Len(Preamble \o Prefix)]
        ELSE IF fault = "write_meta"
        THEN [fs |-> begun, exc |-> Some("OSError"), written |-> Len(Preamble \o Prefix)]
        ELSE
        LET headed == Write(begun, path, file_meta[1])
            n2 == Len(Preamble \o Prefix) + Len(file_meta[1])
        IN  IF dataset = None
            THEN [fs |-> headed, exc |-> Some("AttributeError"), written |-> n2]
            ELSE IF fault = "write_dataset"
            THEN [fs |-> headed, exc |-> Some("OSError"), written |-> n2]
            ELSE [fs |-> Write(headed, path, dataset[1]), exc |-> None,
                  written |-> n2 + Len(dataset[1])]

StoreEvent(uid) ==
    [event |-> EVT_C_STORE,
     has_context |-> TRUE,
     context |-> [abstract_syntax |-> "CTImageStorage",
                  transfer_syntax |-> "ImplicitVRLittleEndian"],
     requestor |-> peer,
     identifier |-> None]

\* handle_store
handle_store(uid, file_meta, dataset, fault) ==
    LET audited == _log_event(events, StoreEvent(uid), <<>>)
        run == WriteArtifact(fs, uid, file_meta, dataset, fault)
        path == IF uid = None THEN None ELSE Some(OutputFile(uid[1]))
        this == [uid |-> uid, file_meta |-> file_meta, dataset |-> dataset,
                 fault |-> fault, handler |-> "handle_store", path |-> path,
                 written |-> run.written, evMark |-> Len(events),
                 diagMark |-> Len(diag)]
    IN  /\ fs' = run.fs
        /\ IF run.exc = None
           THEN /\ events' = Log(audited,
                                 [action |-> "store_image",
                                  data |-> [path |-> path[1],
                                            size |-> StatSize(run.fs, path[1])]])
                /\ diag' = diag
                /\ store' = this @@ [outcome |-> "returned", reply |-> Some(SUCCESS)]
           ELSE IF Catches(run.exc[1])
           THEN /\ events' = audited
                /\ diag' = Append(diag, <<"critical", "store event">>)
                /\ store' = this @@ [outcome |-> "returned", reply |-> Some(FAILURE)]
           ELSE /\ events' = audited
                /\ diag' = diag
                /\ store' = this @@ [outcome |-> "raised", reply |-> None]

\* handle_event, the generic handler, for a C-STORE request
handle_event_store(uid, file_meta, dataset, fault) ==
    /\ events' = _log_event(events, StoreEvent(uid), <<>>)
    /\ store' = [uid |-> uid, file_meta |-> file_meta, dataset |-> dataset,
                 fault |-> fault, handler |-> "handle_event", path |-> None,
                 written |-> 0, evMark |-> Len(events), diagMark |-> Len(diag),
                 outcome |-> "returned", reply |-> Some(SUCCESS)]
    /\ UNCHANGED <<fs, diag>>

\* a table that binds handle_store whatever the configuration says
special_handlers_always(flag) == "handle_store"

\* special_handlers.get(EVT_C_STORE.name, handle_event): handle_store is in the
\* table if store_images is set
special_handlers(flag) == IF flag THEN "handle_store" ELSE "handle_event"

\* the engine calls the handler bound to EVT_C_STORE: handle_store if
\* store_images is set, handle_event otherwise
on_c_store(uid, file_meta, dataset, fault) ==
    /\ nStores < MaxStores
    /\ nStores' = nStores + 1
    /\ IF special_handlers(store_images) = "handle_store"
       THEN handle_store(uid, file_meta, dataset, fault)
       ELSE handle_event_store(uid, file_meta, dataset, fault)
    /\ UNCHANGED <<peer, hl7, flat, auxVars, store_images, getVars, sessVars>>

StoreInit ==
    /\ events = <<>>
    /\ diag = <<>>
    /\ peer = [address |-> "10.0.0.1", port |-> 40000]
    /\ GetIdle
    /\ store_images \in BOOLEAN
    /\ StoreIdle
    /\ SessIdle
    /\ Hl7Idle
    /\ FlatIdle
    /\ AuxIdle

StoreNext ==
    \E uid \in Uids, file_meta \in FileMetas, dataset \in DataSets, fault \in Faults :
        on_c_store(uid, file_meta, dataset, fault)

SpecStore == StoreInit /\ [][StoreNext]_vars

----------------------------------------------------------------------------
(* The claims about C-STORE, checked under SpecStore. *)

\* the events the last C-STORE request added to the log
StoreEvents == SubSeq(events, store.evMark + 1, Len(events))

StoreImageEvents == {i \in 1..Len(StoreEvents) : StoreEvents[i].action = "store_image"}

CriticalSince(mark) == {i \in (mark + 1)..Len(diag) : diag[i][1] = "critical"}

\* neither the request nor the file system makes a step of the write fail
WrittenWithoutError ==
    /\ store.handler = "handle_store"
    /\ store.uid # None
    /\ store.file_meta # None
    /\ store.dataset # None
    /\ store.fault = "none"

\* C5: with store_images set, a store request whose artifact is written without
\* error is answered SUCCESS and adds exactly one store_image event; the event's
\* size is the number of bytes the handler wrote, and the artifact is 128 zero
\* bytes, then "DICM", then the encoded file meta, then the payload, and nothing
\* else.
C5_StoreWritesArtifact ==
    WrittenWithoutError =>
        /\ store.outcome = "returned"
        /\ store.reply = <<SUCCESS>>
        /\ Cardinality(StoreImageEvents) = 1
        /\ \A i \in StoreImageEvents :
              /\ StoreEvents[i].data.size = store.written
              /\ StoreEvents[i].data.path = store.path[1]
        /\ store.path[1] \in DOMAIN fs
        /\ fs[store.path[1]] = [i \in 1..128 |-> 0] \o <<68, 73, 67, 77>>
                                   \o store.file_meta[1] \o store.dataset[1]
        /\ store.written = 132 + Len(store.file_meta[1]) + Len(store.dataset[1])

\* a second request overwrites the longer artifact of a first one
C5_Witness ==
    /\ WrittenWithoutError
    /\ nStores = 2
    /\ Len(store.dataset[1]) = 2
    /\ Len(events) = 4
    /\ events[2].action = "store_image"
    /\ events[2].data.path = store.path[1]
    /\ events[2].data.size > events[4].data.size
    /\ store.reply = <<SUCCESS>>

\* C6 as stated: whenever handle_store has replied FAILURE, no file exists at the
\* request's artifact path and the request added no store_image event.
C6_FailureLeavesNoArtifact ==
    (store.handler = "handle_store" /\ store.reply = <<FAILURE>>) =>
        /\ store.path # None => store.path[1] \notin DOMAIN fs
        /\ StoreImageEvents = {}

\* C7: handle_store ends by returning SUCCESS or FAILURE, never by raising,
\* whatever the request lacks and wherever an I/O error strikes; a FAILURE comes
\* with exactly one critical diagnostic and a SUCCESS with none.
C7_StoreNeverRaises ==
    store.handler = "handle_store" =>
        /\ store.outcome = "returned"
        /\ store.reply \in {<<SUCCESS>>, <<FAILURE>>}
        /\ store.reply = <<FAILURE>> <=> ~WrittenWithoutError
        /\ Cardinality(CriticalSince(store.diagMark)) =
              IF store.reply = <<FAILURE>> THEN 1 ELSE 0
        /\ Len(diag) = store.diagMark + Cardinality(CriticalSince(store.diagMark))

C7_Witness ==
    /\ store.handler = "handle_store"
    /\ store.uid = None
    /\ store.outcome = "returned"
    /\ store.reply = <<FAILURE>>
    /\ diag = << <<"critical", "store event">> >>

----------------------------------------------------------------------------
(* The session: the accepted connection, the decoded PDUs, the identity    *)
(* negotiation and the echo operation.  A str is the sequence of its code  *)
(* points.                                                                 *)

\* bytes.decode(): the text, or None where Python raises UnicodeDecodeError
RECURSIVE Utf8Decode(_)
Utf8Decode(bs) ==
    IF bs = <<>> THEN Some(<<>>)
    ELSE
    LET b1 == bs[1]
        n == IF b1 < 128 THEN 1
             ELSE IF b1 \in 194..223 THEN 2
             ELSE IF b1 \in 224..239 THEN 3
             ELSE IF b1 \in 240..244 THEN 4
             ELSE 0
    IN  IF n = 0 \/ Len(bs) < n \/ (\E i \in 2..n : bs[i] \notin 128..191)
        THEN None
        ELSE
        LET cp == CASE n = 1 -> b1
                    [] n = 2 -> (b1 - 192) * 64 + (bs[2] - 128)
                    [] n = 3 -> (b1 - 224) * 4096 + (bs[2] - 128) * 64 + (bs[3] - 128)
                    [] OTHER -> (b1 - 240) * 262144 + (bs[2] - 128) * 4096
                                + (bs[3] - 128) * 64 + (bs[4] - 128)
            ok == CASE n = 3 -> cp >= 2048 /\ cp \notin 55296..57343
                    [] n = 4 -> cp \in 65536..1114111
                    [] OTHER -> TRUE
            rest == Utf8Decode(SubSeq(bs, n + 1, Len(bs)))
        IN  IF ~ok \/ rest = None THEN None ELSE Some(<<cp>> \o rest[1])

\* class UserIdType(Enum): the names by value
UserIdType ==
    (1 :> "username") @@ (2 :> "username_and_passcode") @@ (3 :> "kerberos")
    @@ (4 :> "saml") @@ (5 :> "jwt")

\* the credentials the server is configured with: "test_user", "test_pw"
USERNAME == <<116, 101, 115, 116, 95, 117, 115, 101, 114>>

PASSWORD == <<116, 101, 115, 116, 95, 112, 119>>

\* the primary fields drawn: b"test_user", b"\xc3\xa9" (one two-byte character),
\* b"\xff" and b"\xc3" (not UTF-8)
PrimaryFields == {USERNAME, <<195, 169>>, <<255>>, <<195>>}

\* the secondary fields drawn: None (no secondary field), b"test_pw", b"x", b"\xff"
SecondaryFields == {None, Some(PASSWORD), Some(<<120>>), Some(<<255>>)}

\* the identities a peer presents: the five kinds; the secondary field is there
\* for username_and_passcode
Identities ==
    {id \in [user_id_type : DOMAIN UserIdType, primary_field : PrimaryFields,
             secondary_field : SecondaryFields] :
        id.user_id_type = 2 <=> id.secondary_field # None}

\* the credential-check collaborator: BaseServer.check_login(username, password,
\* ip, port) compares with the configured credentials, emits the login event and
\* returns the verdict
check_login(username, password, ip, port) ==
    LET accepted == username = USERNAME /\ password = PASSWORD
    IN  [result |-> accepted,
         call |-> [username |-> username, password |-> password, ip |-> ip,
                   port |-> port, result |-> accepted],
         entry |-> [action |-> "login",
                    status |-> IF accepted THEN "success" ELSE "failed",
                    src_ip |-> ip, src_port |-> port,
                    username |-> username, password |-> password]]

\* _log_id_event: the entry it logs, or None where building it raises
_log_id_event(data_type, event) ==
    LET text == Utf8Decode(event.primary_field)
    IN  IF event.user_id_type \notin DOMAIN UserIdType \/ text = None THEN None
        ELSE Some([action |-> "login",
                   status |-> "failed",
                   data |-> ("login_format" :> UserIdType[event.user_id_type])
                            @@ (data_type :> text[1])])

\* the body of handle_login: the exception it raises (None: none), the value it
\* returns, the entries it logs and the calls of the collaborator it makes
LoginRun(event) ==
    LET raise(exc) == [exc |-> Some(exc), result |-> None, entries |-> <<>>,
                       calls |-> <<>>]
        return(result, entries, calls) ==
            [exc |-> None, result |-> Some(result), entries |-> entries,
             calls |-> calls]
        kind == event.user_id_type
        username == Utf8Decode(event.primary_field)
    IN  IF kind \notin DOMAIN UserIdType THEN raise("ValueError")
        ELSE IF UserIdType[kind] = "username_and_passcode"
        THEN IF username = None THEN raise("UnicodeDecodeError")
             ELSE IF event.secondary_field = None THEN raise("AttributeError")
             ELSE LET password == Utf8Decode(event.secondary_field[1])
                  IN  IF password = None THEN raise("UnicodeDecodeError")
                      ELSE LET checked == check_login(username[1], password[1],
                                                      event.requestor.address,
                                                      event.requestor.port)
                           IN  return(checked.result, <<checked.entry>>,
                                      <<checked.call>>)
        ELSE IF UserIdType[kind] = "username"
        THEN IF username = None THEN raise("UnicodeDecodeError")
             ELSE return(TRUE,
                         <<[action |-> "login",
                            username |-> username[1],
                            status |-> "success",
                            data |-> [login_format |-> UserIdType[kind]]]>>,
                         <<>>)
        ELSE LET entry == IF UserIdType[kind] = "kerberos"
                          THEN _log_id_event("kerberos_ticket", event)
                          ELSE IF UserIdType[kind] = "jwt"
                          THEN _log_id_event("json_web_token", event)
                          ELSE _log_id_event("saml_assertion", event)
             IN  IF entry = None THEN raise("UnicodeDecodeError")
                 ELSE return(FALSE, <<entry[1]>>, <<>>)

RECURSIVE LogAll(_, _)
LogAll(log, entries) ==
    IF entries = <<>> THEN log ELSE LogAll(Log(log, Head(entries)), Tail(entries))

\* the PDU classes the server decodes, as the segments of their names
PduTypes == {<<"A", "ASSOCIATE", "RQ">>, <<"P", "DATA", "TF">>,
             <<"A", "RELEASE", "RQ">>, <<"A", "ABORT", "RQ">>}

\* type(pdu).__name__.replace("_", "-")
PduTypeName(segs) == JoinWith(segs, "-")

EVT_C_ECHO == [name |-> <<"EVT", "C", "ECHO">>, description |-> "C-ECHO request received"]

\* a process_request that records port zero for a bare address
SrcPortOrZero(is_tuple) == IF is_tuple THEN Some(peer.port) ELSE Some(0)

\* process_request: src_port is the port of the pair, None for a bare address
SrcPort(is_tuple) == IF is_tuple THEN Some(peer.port) ELSE None

\* CustomAssociationServer.process_request: client_address is an (address, port)
\* pair or a bare address; the connection is logged, then handed to the engine
process_request(is_tuple) ==
    /\ sess.pc = "listening"
    /\ events' = Log(events, [action |-> "connection",
                              src_ip |-> peer.address,
                              src_port |-> SrcPort(is_tuple)])
    /\ sess' = [sess EXCEPT !.pc = "accepted", !.is_tuple = is_tuple]
    /\ UNCHANGED <<diag, peer, hl7, flat, auxVars, login, checkCalls, getVars, storeVars>>

\* where the engine is once it has decoded a PDU of this type
AfterPdu(pc, segs) ==
    IF segs = <<"A", "ABORT", "RQ">> THEN "aborted"
    ELSE IF pc = "accepted" /\ segs = <<"A", "ASSOCIATE", "RQ">> THEN "requested"
    ELSE IF pc = "established" /\ segs = <<"P", "DATA", "TF">> THEN "operation"
    ELSE IF pc = "established" /\ segs = <<"A", "RELEASE", "RQ">> THEN "released"
    ELSE "aborted"

\* a _decode_pdu that logs the data PDUs too
EveryPduIsLogged(pdu_type) == TRUE

\* _decode_pdu: if pdu_type != "P-DATA-TF"
PduIsLogged(pdu_type) == pdu_type # "P-DATA-TF"

\* CustomDUL._decode_pdu: every decoded PDU but P-DATA-TF is logged.  The engine
\* decodes the next PDU of a session when it is done with the one before.
\* The entry's "data" field (_dicom_obj_to_dict(pdu)) is left out of the entry:
\* the properties below read the entry's action and its place in the log only.
_decode_pdu(segs, identity) ==
    /\ sess.pc \in {"accepted", "established"}
    /\ segs = <<"P", "DATA", "TF">> => sess.pc = "established" /\ sess.nOps < MaxOps
    /\ events' = IF PduIsLogged(PduTypeName(segs))
                 THEN Log(events, [action |-> PduTypeName(segs)])
                 ELSE events
    /\ sess' = [sess EXCEPT !.pc = AfterPdu(sess.pc, segs),
                            !.identity = IF AfterPdu(sess.pc, segs) = "requested"
                                         THEN identity ELSE sess.identity]
    /\ UNCHANGED <<diag, peer, hl7, flat, auxVars, login, checkCalls, getVars, storeVars>>

\* the association request carries no user identity: the engine accepts
accept_association ==
    /\ sess.pc = "requested"
    /\ sess.identity = None
    /\ sess' = [sess EXCEPT !.pc = "established"]
    /\ UNCHANGED <<events, diag, peer, hl7, flat, auxVars, login, checkCalls, getVars, storeVars>>

\* handle_login, called by the engine for the user identity of the association
\* request; the engine accepts the association if it returns True and rejects it
\* if it returns False or raises
handle_login ==
    /\ sess.pc = "requested"
    /\ sess.identity # None
    /\ LET event == sess.identity[1] @@ [requestor |-> peer]
           run == LoginRun(event)
       IN  /\ events' = LogAll(events, run.entries)
           /\ checkCalls' = checkCalls \o run.calls
           /\ login' = [user_id_type |-> event.user_id_type,
                        primary_field |-> event.primary_field,
                        secondary_field |-> event.secondary_field,
                        outcome |-> IF run.exc = None THEN "returned" ELSE "raised",
                        exc |-> run.exc, result |-> run.result,
                        evMark |-> Len(events)]
           /\ sess' = [sess EXCEPT !.pc = IF run.result = Some(TRUE)
                                          THEN "established" ELSE "rejected"]
    /\ UNCHANGED <<diag, peer, hl7, flat, auxVars, getVars, storeVars>>

\* handle_event, the generic handler, for the C-ECHO request of a P-DATA-TF
handle_event_echo ==
    /\ sess.pc = "operation"
    /\ events' = _log_event(events,
                            [event |-> EVT_C_ECHO, has_context |-> TRUE,
                             context |-> [abstract_syntax |-> "Verification",
                                          transfer_syntax |-> "ImplicitVRLittleEndian"],
                             requestor |-> peer],
                            <<>>)
    /\ sess' = [sess EXCEPT !.pc = "established", !.nOps = sess.nOps + 1]
    /\ UNCHANGED <<diag, peer, hl7, flat, auxVars, login, checkCalls, getVars, storeVars>>

\* what super()._send(pdu) does: it returns (None) or raises one of these
SendRaises == {None, Some("AttributeError"), Some("OSError"), Some("TypeError")}

\* a _send that suppresses every exception
SuppressesException(exc) == TRUE

\* with suppress(AttributeError)
Suppresses(exc) == exc = "AttributeError"

\* CustomDUL._send: the engine sends a PDU (the answer to the association request,
\* to an operation or to the release, or an abort).  An exception that is not
\* suppressed leaves _send and ends the provider.
_send(raised) ==
    /\ sess.pc \in {"established", "rejected", "released", "aborted"}
    /\ LET propagated == IF raised # None /\ ~Suppresses(raised[1])
                         THEN raised ELSE None
       IN  sess' = [sess EXCEPT !.send = Some([raised |-> raised,
                                               propagated |-> propagated]),
                                !.pc = IF propagated # None THEN "aborted" ELSE @]
    /\ UNCHANGED <<events, diag, peer, hl7, flat, auxVars, login, checkCalls, getVars, storeVars>>

SessionInit ==
    /\ events = <<>>
    /\ diag = <<>>
    /\ peer \in Peers
    /\ GetIdle
    /\ store_images = FALSE
    /\ StoreIdle
    /\ SessIdle
    /\ Hl7Idle
    /\ FlatIdle
    /\ AuxIdle

SessionNext ==
    \/ \E is_tuple \in BOOLEAN : process_request(is_tuple)
    \/ \E segs \in PduTypes, identity \in {None} \cup {Some(id) : id \in Identities} :
          _decode_pdu(segs, identity)
    \/ accept_association
    \/ handle_login
    \/ handle_event_echo
    \/ \E raised \in SendRaises : _send(raised)

SpecSession == SessionInit /\ [][SessionNext]_vars

----------------------------------------------------------------------------
(* The claims about the identity negotiation, checked under SpecSession. *)

Handled(kinds) == login.outcome # "none" /\ login.user_id_type \in kinds

LoginEvents == {i \in 1..Len(events) : events[i].action = "login"}

\* the fields handle_login reads for the kind presented can be read and decoded
FieldsDecodable ==
    /\ Utf8Decode(login.primary_field) # None
    /\ login.user_id_type = 2 =>
          /\ login.secondary_field # None
          /\ Utf8Decode(login.secondary_field[1]) # None

\* C8 as stated: handle_login never raises: for each of the five kinds it returns
\* an accept or reject result, for any other kind it returns not-authenticated, and
\* for a field it cannot read or decode it returns not-authenticated.
C8_LoginTotal ==
    login.outcome # "none" =>
        /\ login.outcome = "returned"
        /\ login.result \in {<<TRUE>>, <<FALSE>>}
        /\ login.user_id_type \notin 1..5 => login.result = <<FALSE>>
        /\ ~FieldsDecodable => login.result = <<FALSE>>

\* C9 as stated: for a username+secret identity handle_login calls the
\* collaborator exactly once, with the decoded username, the decoded secret and the
\* peer's address and port, and returns the collaborator's verdict; when the
\* verdict is accept, the log holds exactly one login event, with status success
\* and the presented username, after the A-ASSOCIATE-RQ event and before any
\* A-RELEASE-RQ event.
C9_UsernameAndPasscode ==
    Handled({2}) =>
        /\ login.outcome = "returned"
        /\ Len(checkCalls) = 1
        /\ FieldsDecodable
        /\ checkCalls[1].username = Utf8Decode(login.primary_field)[1]
        /\ checkCalls[1].password = Utf8Decode(login.secondary_field[1])[1]
        /\ checkCalls[1].ip = peer.address
        /\ checkCalls[1].port = peer.port
        /\ login.result = <<checkCalls[1].result>>
        /\ checkCalls[1].result =>
              /\ Cardinality(LoginEvents) = 1
              /\ \A i \in LoginEvents :
                    /\ events[i].status = "success"
                    /\ events[i].username = Utf8Decode(login.primary_field)[1]
                    /\ \E j \in 1..(i - 1) : events[j].action = "A-ASSOCIATE-RQ"
                    /\ \A k \in 1..Len(events) :
                          events[k].action = "A-RELEASE-RQ" => k > i

\* C10 as stated: for a username-only identity handle_login returns True, makes
\* no call of the collaborator, and logs exactly one login event, with status
\* success, the decoded username and login_format "username".
C10_UsernameOnly ==
    Handled({1}) =>
        /\ login.outcome = "returned"
        /\ login.result = <<TRUE>>
        /\ checkCalls = <<>>
        /\ Cardinality(LoginEvents) = 1
        /\ \A i \in LoginEvents :
              /\ events[i].status = "success"
              /\ Utf8Decode(login.primary_field) # None
              /\ events[i].username = Utf8Decode(login.primary_field)[1]
              /\ events[i].data.login_format = "username"

\* the key under which each of the three remaining kinds logs its primary field
IdKeys == {"kerberos_ticket", "saml_assertion", "json_web_token"}

IdKeyOf(kind) ==
    CASE kind = 3 -> "kerberos_ticket"
      [] kind = 4 -> "saml_assertion"
      [] kind = 5 -> "json_web_token"

\* C11 as stated: for a kerberos, SAML or JWT identity handle_login returns False,
\* makes no call of the collaborator, and logs exactly one login event, with status
\* failed, whose data carries the decoded primary field under the key of that kind
\* and under no key of the other two kinds.
C11_TicketKindsRejected ==
    Handled({3, 4, 5}) =>
        /\ login.outcome = "returned"
        /\ login.result = <<FALSE>>
        /\ checkCalls = <<>>
        /\ Cardinality(LoginEvents) = 1
        /\ \A i \in LoginEvents :
              /\ events[i].status = "failed"
              /\ Utf8Decode(login.primary_field) # None
              /\ DOMAIN events[i].data \cap IdKeys = {IdKeyOf(login.user_id_type)}
              /\ events[i].data[IdKeyOf(login.user_id_type)]
                     = Utf8Decode(login.primary_field)[1]

----------------------------------------------------------------------------
(* The claims about the events of a session, checked under SpecSession. *)

\* the actions of the entries of a log, in order
Actions(log) == [i \in 1..Len(log) |-> log[i].action]

\* the session presented no identity and has been released by the peer
ReleasedWithoutIdentity == sess.pc = "released" /\ sess.identity = None

ConnectionEvents == {i \in 1..Len(events) : events[i].action = "connection"}

\* C13: an accepted connection logs exactly one connection event, before the
\* connection is handed to the engine and so before any other event of the session;
\* for a peer address that is not an (address, port) pair its src_port is None, not
\* zero.
C13_ConnectionEventFirst ==
    /\ sess.pc = "listening" => events = <<>>
    /\ sess.pc # "listening" =>
          /\ ConnectionEvents = {1}
          /\ events[1].src_ip = peer.address
          /\ sess.is_tuple => events[1].src_port = Some(peer.port)
          /\ ~sess.is_tuple => events[1].src_port = None

C13_Witness ==
    /\ sess.pc = "released"
    /\ ~sess.is_tuple
    /\ Len(events) >= 3
    /\ events[1] = [action |-> "connection", src_ip |-> peer.address, src_port |-> None]

\* C17: an AttributeError raised while the DUL provider sends a PDU is discarded
\* inside _send: it does not leave _send, nothing is logged at any severity and the
\* rest of the session's state is as it was; an exception of another type is not
\* swallowed.
C17_SendDiscardsAttributeError ==
    [][\A raised \in SendRaises :
          _send(raised) =>
              /\ raised = Some("AttributeError") =>
                    /\ sess'.send[1].propagated = None
                    /\ events' = events
                    /\ diag' = diag
                    /\ [sess' EXCEPT !.send = sess.send] = sess
                    /\ <<peer, login, checkCalls>>' = <<peer, login, checkCalls>>
              /\ raised \notin {None, Some("AttributeError")} =>
                    sess'.send[1].propagated = raised]_vars

C17_Witness ==
    /\ sess.pc = "released"
    /\ sess.send = Some([raised |-> Some("AttributeError"), propagated |-> None])
    /\ Actions(events) = <<"connection", "A-ASSOCIATE-RQ", "A-RELEASE-RQ">>

----------------------------------------------------------------------------
(* The HL7 adapter (src/honeypots/hl7_server.py).  The text of a field is  *)
(* the sequence of its pieces: a piece is one separator character ("^" or  *)
(* "_") or a run of other characters, so that splitting is computed.  A    *)
(* header (MSH) is a function from the field names to optional texts.      *)

\* class Hl7Header
SENDING_APPLICATION == "MSH_3"
SENDING_FACILITY == "MSH_4"
RECEIVING_APPLICATION == "MSH_5"
RECEIVING_FACILITY == "MSH_6"
MESSAGE_TYPE == "MSH_9"
MESSAGE_CONTROL_ID == "MSH_10"
PROCESSING_ID == "MSH_11"
VERSION_ID == "MSH_12"

\* the header fields the adapter reads or writes; MSH_7 is the date/time
Hl7Fields == {SENDING_APPLICATION, SENDING_FACILITY, RECEIVING_APPLICATION,
              RECEIVING_FACILITY, "MSH_7", MESSAGE_TYPE, MESSAGE_CONTROL_ID,
              PROCESSING_ID, VERSION_ID}

\* the separator characters of HL7_SPLIT_REGEX = re.compile(r"[_^]")
Hl7Separators == {"_", "^"}

\* a split that takes the text apart at "^" only
RECURSIVE SplitAtCaret(_)
SplitAtCaret(text) ==
    IF text = <<>> THEN << <<>> >>
    ELSE LET rest == SplitAtCaret(Tail(text))
         IN  IF Head(text) = "^"
             THEN << <<>> >> \o rest
             ELSE << <<Head(text)>> \o Head(rest) >> \o Tail(rest)

\* HL7_SPLIT_REGEX.split(text): the parts between the separators, as re.split
\* gives them (an empty part where two separators meet or the text ends)
RECURSIVE HL7_SPLIT_REGEX(_)
HL7_SPLIT_REGEX(text) ==
    IF text = <<>> THEN << <<>> >>
    ELSE LET rest == HL7_SPLIT_REGEX(Tail(text))
         IN  IF Head(text) \in Hl7Separators
             THEN << <<>> >> \o rest
             ELSE << <<Head(text)>> \o Head(rest) >> \o Tail(rest)

\* the values of MSH-9 drawn: absent, "", "ADT", "ADT^A01", "ADT^A01^ADT_A01",
\* "ADT_A01", "ADT^" and "ADT^^ADT_A01"
MessageTypes ==
    {None, Some(<<>>), Some(<<"ADT">>), Some(<<"ADT", "^", "A01">>),
     Some(<<"ADT", "^", "A01", "^", "ADT", "_", "A01">>),
     Some(<<"ADT", "_", "A01">>), Some(<<"ADT", "^">>),
     Some(<<"ADT", "^", "^", "ADT", "_", "A01">>)}

\* the headers of the parseable messages drawn: a field is absent (None), empty
\* or has a text
Headers ==
    {(SENDING_APPLICATION :> f3) @@ (SENDING_FACILITY :> f4)
     @@ (RECEIVING_APPLICATION :> f5) @@ (RECEIVING_FACILITY :> f6)
     @@ ("MSH_7" :> Some(<<"20240214100348">>)) @@ (MESSAGE_TYPE :> f9)
     @@ (MESSAGE_CONTROL_ID :> f10) @@ (PROCESSING_ID :> f11)
     @@ (VERSION_ID :> f12) :
        f3 \in {None, Some(<<"sending", "_", "app">>)},
        f4 \in {None, Some(<<"sending", "_", "facility">>)},
        f5 \in {None, Some(<<>>), Some(<<"receiving", "_", "app">>)},
        f6 \in {None, Some(<<"receiving", "_", "facility">>)},
        f9 \in MessageTypes,
        f10 \in {None, Some(<<>>), Some(<<"1234">>)},
        f11 \in {None, Some(<<"T">>)},
        f12 \in {None, Some(<<"2.3">>)}}

\* what a connection delivers as its framed message: bytes parse_message cannot
\* parse, or a message with one of the headers and the names of its segments
Incoming ==
    {[parseable |-> FALSE, msh |-> [f \in Hl7Fields |-> None], segments |-> <<>>]}
    \cup {[parseable |-> TRUE, msh |-> h, segments |-> <<"MSH">>] : h \in Headers}

\* _get_optional_field: the value of the field, None where reading it raises
\* AttributeError (the field is not there)
_get_optional_field(message, field) == message.msh[field]

\* _get_response_message_type: "_, event, *_ = HL7_SPLIT_REGEX.split(MSH-9)";
\* split(None) raises TypeError, unpacking fewer than two parts raises ValueError
_get_response_message_type(message) ==
    LET value == _get_optional_field(message, MESSAGE_TYPE)
    IN  IF value = None THEN <<"ACK">>
        ELSE LET parts == HL7_SPLIT_REGEX(value[1])
             IN  IF Len(parts) < 2 THEN <<"ACK">>
                 ELSE <<"ACK", "^">> \o parts[2]

\* what can go wrong while reply builds the response: nothing, the logging of the
\* query event, or the writing of one header field
Hl7Faults == {"none", "log", SENDING_APPLICATION, SENDING_FACILITY,
              RECEIVING_APPLICATION, RECEIVING_FACILITY, MESSAGE_TYPE,
              MESSAGE_CONTROL_ID, PROCESSING_ID, "MSH_7"}

\* str(randint(1000, 9000)), as drawn
ControlIds == {<<"1000">>, <<"9000">>}

\* datetime.now() in the format of the date/time field, as drawn
Now == <<"20240214100348.123+0000">>

\* CustomPDQHandler.__init__: the parsed message, the version (MSH-12 or "2.5") and
\* the empty ACK response; all None when parse_message raises
PDQHandler(incoming) ==
    IF ~incoming.parseable
    THEN [message |-> None, version |-> None, response |-> None]
    ELSE LET v == _get_optional_field(incoming, VERSION_ID)
             version == IF v = None \/ v = Some(<<>>) THEN <<"2.5">> ELSE v[1]
         IN  [message |-> Some(incoming), version |-> Some(version),
              response |-> Some([name |-> "ACK", version |-> version,
                                 msh |-> [f \in Hl7Fields |-> None],
                                 segments |-> <<>>])]

\* _add_field_to_header: None is not written; raised tells that writing raised
_add_field_to_header(response, field, value, fault) ==
    IF value = None THEN [response |-> response, raised |-> FALSE]
    ELSE IF fault = field THEN [response |-> response, raised |-> TRUE]
    ELSE [response |-> [response EXCEPT !.msh[field] = value], raised |-> FALSE]

\* a header that keeps the parties where the request has them
HeaderFieldsKept(message, control_id) ==
    << <<SENDING_APPLICATION, _get_optional_field(message, SENDING_APPLICATION)>>,
       <<SENDING_FACILITY, _get_optional_field(message, SENDING_FACILITY)>>,
       <<RECEIVING_APPLICATION, _get_optional_field(message, RECEIVING_APPLICATION)>>,
       <<RECEIVING_FACILITY, _get_optional_field(message, RECEIVING_FACILITY)>>,
       <<MESSAGE_TYPE, Some(_get_response_message_type(message))>>,
       <<MESSAGE_CONTROL_ID, Some(control_id)>>,
       <<PROCESSING_ID, _get_optional_field(message, PROCESSING_ID)>> >>

\* _populate_header: the fields it writes and their values, in the order it
\* writes them
HeaderFields(message, control_id) ==
    << <<SENDING_APPLICATION, _get_optional_field(message, RECEIVING_APPLICATION)>>,
       <<SENDING_FACILITY, _get_optional_field(message, RECEIVING_FACILITY)>>,
       <<RECEIVING_APPLICATION, _get_optional_field(message, SENDING_APPLICATION)>>,
       <<RECEIVING_FACILITY, _get_optional_field(message, SENDING_FACILITY)>>,
       <<MESSAGE_TYPE, Some(_get_response_message_type(message))>>,
       <<MESSAGE_CONTROL_ID, Some(control_id)>>,
       <<PROCESSING_ID, _get_optional_field(message, PROCESSING_ID)>> >>

RECURSIVE AddFields(_, _, _)
AddFields(response, fields, fault) ==
    IF fields = <<>> THEN [response |-> response, raised |-> FALSE]
    ELSE LET added == _add_field_to_header(response, Head(fields)[1],
                                           Head(fields)[2], fault)
         IN  IF added.raised THEN added
             ELSE AddFields(added.response, Tail(fields), fault)

\* _populate_header: the seven fields, then the date/time field is overwritten
_populate_header(response, message, control_id, fault) ==
    LET added == AddFields(response, HeaderFields(message, control_id), fault)
    IN  IF added.raised THEN added
        ELSE IF fault = "MSH_7" THEN [response |-> added.response, raised |-> TRUE]
        ELSE [response |-> [added.response EXCEPT !.msh["MSH_7"] = Some(Now)],
              raised |-> FALSE]

\* _parse_message: one entry per segment of the message (the raw text and the
\* fields of a segment are not part of the entry here)
_parse_message(message) ==
    [i \in 1..Len(message.segments) |-> [name |-> message.segments[i]]]

\* parse_segment(f"MSA|AA|{control_id}"): None is formatted as "None"
AckSegment(control_id) ==
    [name |-> "MSA", msa_1 |-> <<"AA">>,
     msa_2 |-> IF control_id = None THEN <<"None">> ELSE control_id[1]]

\* response.to_mllp(): the message in its MLLP frame
to_mllp(response) == [frame |-> "mllp", message |-> response]

\* a reply that frames an empty message for a message that was not parsed
EmptyFrame == [frame |-> "mllp", message |-> None]

\* what reply returns for a message that was not parsed: the empty string
EmptyReply == [frame |-> "none"]

\* the body of CustomPDQHandler.reply: the entries it logs, whether its try block
\* raised (the error is then reported at debug severity), whether the header was
\* populated, and the value it returns
PDQReply(handler, fault, control_id) ==
    IF handler.message = None
    THEN [entries |-> <<>>, raised |-> FALSE, populated |-> FALSE,
          response |-> handler.response, reply |-> EmptyReply]
    ELSE
    LET message == handler.message[1]
        query == [action |-> "query",
                  data |-> [message |-> _parse_message(message)]]
        header == _populate_header(handler.response[1], message, control_id, fault)
        ack_segment == AckSegment(_get_optional_field(message, MESSAGE_CONTROL_ID))
        response == IF fault = "log" THEN handler.response[1]
                    ELSE IF header.raised THEN header.response
                    ELSE [header.response EXCEPT
                             !.segments = Append(header.response.segments, ack_segment)]
    IN  [entries |-> IF fault = "log" THEN <<>> ELSE <<query>>,
         raised |-> fault = "log" \/ header.raised,
         populated |-> fault # "log" /\ ~header.raised,
         response |-> Some(response),
         reply |-> to_mllp(response)]

\* CustomMLLPRequestHandler.handle: the connection was accepted and the framework
\* reads from it; a connection reset is suppressed.  Only a framed message is
\* routed.
handle(input, incoming) ==
    /\ hl7.pc = "listening"
    /\ input = "message" <=> incoming # None
    /\ hl7' = [hl7 EXCEPT !.pc = IF input = "message" THEN "routing" ELSE "closed",
                          !.input = input, !.incoming = incoming,
                          !.evMark = Len(events)]
    /\ UNCHANGED <<events, diag, peer, flat, auxVars, getVars, storeVars, sessVars>>

\* CustomMLLPRequestHandler._route_message: the connection event is logged, then
\* the framework routes the message: it constructs the CustomPDQHandler for it, or
\* the ErrorHandler when routing raised
_route_message(route) ==
    /\ hl7.pc = "routing"
    /\ route = "error" => ~hl7.incoming[1].parseable
    /\ events' = Log(events, [action |-> "connection", src_ip |-> peer.address,
                              src_port |-> peer.port])
    /\ LET handler == PDQHandler(hl7.incoming[1])
       IN  hl7' = IF route = "error"
                  THEN [hl7 EXCEPT !.pc = "error"]
                  ELSE [hl7 EXCEPT !.pc = "replying",
                                   !.message = handler.message,
                                   !.version = handler.version,
                                   !.response = handler.response]
    /\ UNCHANGED <<diag, peer, flat, auxVars, getVars, storeVars, sessVars>>

\* CustomPDQHandler.reply
reply(fault, control_id) ==
    /\ hl7.pc = "replying"
    /\ hl7.message = None => fault = "none"
    /\ LET run == PDQReply(hl7, fault, control_id)
       IN  /\ events' = LogAll(events, run.entries)
           /\ diag' = IF run.raised THEN Append(diag, <<"debug", "hl7 response">>)
                      ELSE diag
           /\ hl7' = [hl7 EXCEPT !.pc = "closed", !.fault = fault,
                                 !.response = run.response,
                                 !.populated = run.populated,
                                 !.outcome = "returned",
                                 !.reply = Some(run.reply)]
    /\ UNCHANGED <<peer, flat, auxVars, getVars, storeVars, sessVars>>

\* ErrorHandler.reply: an UnsupportedMessageType is reported and logged
ErrorHandler_reply(exc) ==
    /\ hl7.pc = "error"
    /\ events' = IF exc = "UnsupportedMessageType"
                 THEN Log(events, [action |-> "error",
                                   data |-> [exception |-> exc]])
                 ELSE events
    /\ diag' = IF exc = "UnsupportedMessageType"
               THEN Append(diag, <<"error", "hl7 error handler">>)
               ELSE diag
    /\ hl7' = [hl7 EXCEPT !.pc = "closed", !.outcome = "returned"]
    /\ UNCHANGED <<peer, flat, auxVars, getVars, storeVars, sessVars>>

Hl7Init ==
    /\ events = <<>>
    /\ diag = <<>>
    /\ peer = [address |-> "10.0.0.1", port |-> 40000]
    /\ GetIdle
    /\ store_images = FALSE
    /\ StoreIdle
    /\ SessIdle
    /\ Hl7Idle
    /\ FlatIdle
    /\ AuxIdle

Hl7Next ==
    \/ /\ hl7.pc = "listening"
       /\ \E input \in {"message", "closed", "unframed", "reset"},
             incoming \in {None} \cup {Some(i) : i \in Incoming} :
             handle(input, incoming)
    \/ \E route \in {"handler", "error"} : _route_message(route)
    \/ \E fault \in Hl7Faults, control_id \in ControlIds : reply(fault, control_id)
    \/ \E exc \in {"UnsupportedMessageType", "InvalidHL7Message"} :
          ErrorHandler_reply(exc)

SpecHl7 == Hl7Init /\ [][Hl7Next]_vars

----------------------------------------------------------------------------
(* The claims about the HL7 adapter, checked under SpecHl7. *)

\* C14 as stated: every accepted HL7 connection logs exactly one connection event,
\* and it is the first event of the session, whether the connection delivers one
\* framed message, none (closed, reset or unframed input), or a message that
\* cannot be parsed.
C14_Hl7ConnectionEvent ==
    hl7.pc = "closed" => ConnectionEvents = {1}

\* reply has returned for a message that was parsed
RepliedToParsed == hl7.outcome = "returned" /\ hl7.message # None

\* the request's header and the reply's, once reply has returned
RequestMsh == hl7.message[1].msh

ReplyMsh == hl7.reply[1].message.msh

\* C18 as stated: for every parseable incoming message the reply is an ACK message
\* with exactly one MSA segment, whose acknowledgement code is AA and whose control
\* id is the incoming MSH-10 (empty when the message has none), also when logging
\* the query event or populating the header fails.
C18_AckHasOneMsa ==
    RepliedToParsed =>
        /\ hl7.reply[1] # EmptyReply
        /\ hl7.reply[1].message.name = "ACK"
        /\ Len(hl7.reply[1].message.segments) = 1
        /\ LET msa == hl7.reply[1].message.segments[1]
           IN  /\ msa.name = "MSA"
               /\ msa.msa_1 = <<"AA">>
               /\ msa.msa_2 = IF RequestMsh[MESSAGE_CONTROL_ID] = None THEN <<>>
                               ELSE RequestMsh[MESSAGE_CONTROL_ID][1]

\* C19: in the reply header the parties are swapped relative to the request:
\* reply MSH-3 = request MSH-5, reply MSH-4 = request MSH-6, reply MSH-5 = request
\* MSH-3, reply MSH-6 = request MSH-4; a field the request has not is not set in the
\* reply; reply MSH-11 = request MSH-11.  (For a reply whose header was populated.)
C19_HeaderSwapped ==
    (RepliedToParsed /\ hl7.populated) =>
        /\ ReplyMsh[SENDING_APPLICATION] = RequestMsh[RECEIVING_APPLICATION]
        /\ ReplyMsh[SENDING_FACILITY] = RequestMsh[RECEIVING_FACILITY]
        /\ ReplyMsh[RECEIVING_APPLICATION] = RequestMsh[SENDING_APPLICATION]
        /\ ReplyMsh[RECEIVING_FACILITY] = RequestMsh[SENDING_FACILITY]
        /\ ReplyMsh[PROCESSING_ID] = RequestMsh[PROCESSING_ID]

C19_Witness ==
    /\ RepliedToParsed
    /\ hl7.populated
    /\ ReplyMsh[SENDING_APPLICATION] = Some(<<"receiving", "_", "app">>)
    /\ ReplyMsh[RECEIVING_APPLICATION] = Some(<<"sending", "_", "app">>)
    /\ ReplyMsh[RECEIVING_FACILITY] = Some(<<"sending", "_", "facility">>)
    /\ RequestMsh[RECEIVING_FACILITY] = None
    /\ ReplyMsh[SENDING_FACILITY] = None
    /\ ReplyMsh[PROCESSING_ID] = Some(<<"T">>)

\* the positions of the separators "^" and "_" in a text
SeparatorsAt(text) == {i \in 1..Len(text) : text[i] \in {"^", "_"}}

\* the event code of a text with a separator: what stands between its first
\* separator and its next one (or its end)
EventCode(text) ==
    LET first == CHOOSE i \in SeparatorsAt(text) : \A k \in SeparatorsAt(text) : i <= k
        later == {k \in SeparatorsAt(text) : k > first} \cup {Len(text) + 1}
        next == CHOOSE i \in later : \A k \in later : i <= k
    IN  SubSeq(text, first + 1, next - 1)

----------------------------------------------------------------------------
(* _dicom_obj_to_dict.  A text is the sequence of its characters; "\n" is  *)
(* the line break.  The object flattened has a rendering (str(pdu), None   *)
(* where rendering raises) and the attributes hasattr finds on it.         *)

\* number of lines of a rendering drawn
MaxLines == 2

\* str.splitlines(): the lines of a text; a line break at the end makes no line
RECURSIVE splitlines(_)
splitlines(text) ==
    IF text = <<>> THEN <<>>
    ELSE LET breaks == {i \in 1..Len(text) : text[i] = "\n"}
         IN  IF breaks = {} THEN <<text>>
             ELSE LET first == CHOOSE i \in breaks : \A k \in breaks : i <= k
                  IN  <<SubSeq(text, 1, first - 1)>>
                      \o splitlines(SubSeq(text, first + 1, Len(text)))

\* str.split(sep): the parts between the occurrences of sep
RECURSIVE split(_, _)
split(text, sep) ==
    IF text = <<>> THEN << <<>> >>
    ELSE LET rest == split(Tail(text), sep)
         IN  IF Head(text) = sep
             THEN << <<>> >> \o rest
             ELSE << <<Head(text)>> \o Head(rest) >> \o Tail(rest)

\* str.lstrip(chars), str.rstrip(chars) and str.strip(chars)
RECURSIVE lstrip(_, _)
lstrip(text, chars) ==
    IF text # <<>> /\ Head(text) \in chars THEN lstrip(Tail(text), chars) ELSE text

RECURSIVE rstrip(_, _)
rstrip(text, chars) ==
    IF text # <<>> /\ text[Len(text)] \in chars
    THEN rstrip(SubSeq(text, 1, Len(text) - 1), chars)
    ELSE text

strip(text, chars) == rstrip(lstrip(text, chars), chars)

\* the characters stripped from a key ("\t -") and from a value ("'= ")
KeyChars == {"\t", " ", "-"}

ValueChars == {"'", "=", " "}

\* the lines drawn: "ID: 1", "ID: 3", "-A:'x'", "AB" (no colon), "A:B:C" (two
\* colons), ":B" (no label), "A:" (no value) and " : " (blank label and value)
FlatLines ==
    {<<"I", "D", ":", " ", "1">>, <<"I", "D", ":", " ", "3">>,
     <<"-", "A", ":", "'", "x", "'">>, <<"A", "B">>, <<"A", ":", "B", ":", "C">>,
     <<":", "B">>, <<"A", ":">>, <<" ", ":", " ">>}

\* the renderings drawn: up to MaxLines of these lines, joined by line breaks
RECURSIVE JoinLines(_)
JoinLines(lines) ==
    IF lines = <<>> THEN <<>>
    ELSE IF Len(lines) = 1 THEN lines[1]
    ELSE lines[1] \o <<"\n">> \o JoinLines(Tail(lines))

Renderings ==
    {JoinLines(lines) : lines \in UNION {[1..n -> FlatLines] : n \in 0..MaxLines}}

\* an attribute of the object: not there, there but not iterable, or a list
NoAttr == [kind |-> "absent"]

NotIterable == [kind |-> "not_iterable"]

Items(objs) == [kind |-> "items", items |-> objs]

\* an object without attributes: its rendering only
Leaf(str) ==
    [str |-> str, application_context_name |-> None,
     presentation_data_value_items |-> NoAttr, presentation_context |-> NoAttr,
     user_data |-> NoAttr]

\* the values drawn for a composite attribute: not there, not iterable, one item
\* that flattens, one item whose rendering raises
CompositeValues ==
    {NoAttr, NotIterable, Items(<<Leaf(Some(<<"I", "D", ":", " ", "1">>))>>),
     Items(<<Leaf(None)>>)}

\* the objects drawn.  user_data stands for user_information.user_data: NoAttr
\* when the object has no user_information or that has no user_data
FlatObjects ==
    [str : {None} \cup {Some(r) : r \in Renderings},
     application_context_name : {None, Some(<<"1.2.840.10008.3.1.1.1">>)},
     presentation_data_value_items : CompositeValues,
     presentation_context : CompositeValues,
     user_data : CompositeValues]

\* result.update({key: value}): the entry of the key is replaced
Update(result, key, value) == (key :> value) @@ result

\* a loop that trims the key and the value before it tests them
RECURSIVE UpdateFromTrimmedLines(_, _)
UpdateFromTrimmedLines(result, lines) ==
    IF lines = <<>> THEN result
    ELSE LET parts == split(Head(lines), ":")
             next == IF Len(parts) # 2 THEN result
                     ELSE IF strip(parts[1], KeyChars) = <<>>
                             \/ strip(parts[2], ValueChars) = <<>> THEN result
                     ELSE Update(result, strip(parts[1], KeyChars),
                                 strip(parts[2], ValueChars))
         IN  UpdateFromTrimmedLines(next, Tail(lines))

\* the loop over the lines: "key, value = line.split(':')" raises ValueError unless
\* there are exactly two parts; a line without key or value is skipped
RECURSIVE UpdateFromLines(_, _)
UpdateFromLines(result, lines) ==
    IF lines = <<>> THEN result
    ELSE LET parts == split(Head(lines), ":")
             next == IF Len(parts) # 2 THEN result
                     ELSE IF parts[1] = <<>> \/ parts[2] = <<>> THEN result
                     ELSE Update(result, strip(parts[1], KeyChars),
                                 strip(parts[2], ValueChars))
         IN  UpdateFromLines(next, Tail(lines))

\* _dicom_obj_to_dict: the exception it raises (None: none) and the mapping it
\* returns.  Rendering the object, iterating a composite attribute and flattening
\* an item are not guarded.
RECURSIVE _dicom_obj_to_dict(_)
_dicom_obj_to_dict(pdu) ==
    LET raise(exc) == [exc |-> Some(exc), result |-> None]
        \* [_dicom_obj_to_dict(item) for item in attr]
        Flattened(attr) ==
            IF attr.kind = "absent" THEN [exc |-> None, result |-> None]
            ELSE IF attr.kind = "not_iterable" THEN raise("TypeError")
            ELSE LET each == [i \in 1..Len(attr.items) |->
                                 _dicom_obj_to_dict(attr.items[i])]
                     failed == {i \in 1..Len(each) : each[i].exc # None}
                 IN  IF failed # {}
                     THEN each[CHOOSE i \in failed : \A k \in failed : i <= k]
                     ELSE [exc |-> None,
                           result |-> Some([i \in 1..Len(each) |-> each[i].result[1]])]
    IN  IF pdu.str = None THEN raise("Exception")
        ELSE
        LET r0 == UpdateFromLines(<<>>, splitlines(pdu.str[1]))
            r1 == IF pdu.application_context_name # None
                  THEN Update(r0, <<"application_context">>,
                              pdu.application_context_name[1])
                  ELSE r0
            items == Flattened(pdu.presentation_data_value_items)
            contexts == Flattened(pdu.presentation_context)
            user_data == Flattened(pdu.user_data)
        IN  IF pdu.presentation_data_value_items # NoAttr /\ items.exc # None
            THEN items
            ELSE IF pdu.presentation_context # NoAttr /\ contexts.exc # None
            THEN contexts
            ELSE IF pdu.user_data # NoAttr /\ user_data.exc # None
            THEN user_data
            ELSE
            LET r2 == IF pdu.presentation_data_value_items # NoAttr
                      THEN Update(r1, <<"presentation_context">>, items.result[1])
                      ELSE r1
                r3 == IF pdu.presentation_context # NoAttr
                      THEN Update(r2, <<"presentation_context">>, contexts.result[1])
                      ELSE r2
                r4 == IF pdu.user_data # NoAttr
                      THEN Update(r3, <<"user_information">>, user_data.result[1])
                      ELSE r3
            IN  [exc |-> None, result |-> Some(r4)]

\* a call of _dicom_obj_to_dict
flatten(pdu) ==
    /\ flat.pc = "idle"
    /\ LET run == _dicom_obj_to_dict(pdu)
       IN  flat' = [pc |-> "done", obj |-> Some(pdu), exc |-> run.exc,
                    result |-> run.result]
    /\ UNCHANGED <<events, diag, peer, hl7, auxVars, getVars, storeVars, sessVars>>

FlattenInit ==
    /\ events = <<>>
    /\ diag = <<>>
    /\ peer = [address |-> "10.0.0.1", port |-> 40000]
    /\ GetIdle
    /\ store_images = FALSE
    /\ StoreIdle
    /\ SessIdle
    /\ Hl7Idle
    /\ FlatIdle
    /\ AuxIdle

FlattenNext ==
    /\ flat.pc = "idle"
    /\ \E pdu \in FlatObjects : flatten(pdu)

SpecFlatten == FlattenInit /\ [][FlattenNext]_vars

----------------------------------------------------------------------------
(* The claims about _dicom_obj_to_dict, checked under SpecFlatten. *)

\* a well-formed "label : value" line: one colon, and a label and a value that are
\* not empty once trimmed
WellFormedLine(line) ==
    LET parts == split(line, ":")
    IN  /\ Len(parts) = 2
        /\ strip(parts[1], KeyChars) # <<>>
        /\ strip(parts[2], ValueChars) # <<>>

\* the keys _dicom_obj_to_dict sets from attributes of the object
AttributeKeys == {<<"application_context">>, <<"presentation_context">>,
                  <<"user_information">>}

\* the lines of the rendering of the object flattened
FlatObjLines == splitlines(flat.obj[1].str[1])

\* C15 as stated: for a rendering made only of well-formed "label : value" lines,
\* the mapping returned has one entry per line, under the trimmed label of the line
\* with the trimmed value of the line, also when two lines carry the same label.
C15_EveryLineRecovered ==
    (/\ flat.pc = "done"
     /\ flat.exc = None
     /\ \A i \in 1..Len(FlatObjLines) : WellFormedLine(FlatObjLines[i]))
    => /\ Cardinality(DOMAIN flat.result[1] \ AttributeKeys) = Len(FlatObjLines)
       /\ \A i \in 1..Len(FlatObjLines) :
             LET parts == split(FlatObjLines[i], ":")
             IN  /\ strip(parts[1], KeyChars) \in DOMAIN flat.result[1]
                 /\ flat.result[1][strip(parts[1], KeyChars)]
                        = strip(parts[2], ValueChars)

\* C16 as stated: _dicom_obj_to_dict never raises: for any object, also one whose
\* rendering raises, whose composite attributes are not iterable or whose items
\* fail to flatten, it returns a mapping.
C16_FlattenNeverRaises ==
    flat.pc = "done" => flat.exc = None /\ flat.result # None

----------------------------------------------------------------------------
(* C-STORE requests of sessions that run at the same time.  The engine     *)
(* runs each session in a thread of its own; the sessions share            *)
(* storage_dir and the sink.  handle_store of one session is the steps     *)
(* store_begin (audit event, path, open), store_close (the buffered bytes  *)
(* reach the file when the with block closes it) and store_log.  Each      *)
(* session writes through a file object of its own, at that object's       *)
(* offset.                                                                 *)

\* event.assoc.requestor of session s
SessionPeer(s) == [address |-> "10.0.0.1", port |-> 40000 + s]

ConcStoreEvent(s) ==
    [event |-> EVT_C_STORE,
     has_context |-> TRUE,
     context |-> [abstract_syntax |-> "CTImageStorage",
                  transfer_syntax |-> "ImplicitVRLittleEndian"],
     requestor |-> SessionPeer(s),
     identifier |-> None]

\* the identifiers and payloads the concurrent requests carry
ConcUids == {"1.2.3", "1.2.4"}

ConcDataSets == {<<8, 0>>, <<8, 0, 5, 0, 16>>}

ConcFileMeta == <<2, 0, 0, 0>>

\* a write of data through a file object whose position is offset
WriteAt(fsys, path, offset, data) ==
    LET old == fsys[path]
        head == SubSeq(old, 1, offset)
        tail == SubSeq(old, offset + Len(data) + 1, Len(old))
    IN  (path :> (head \o data \o tail)) @@ fsys

\* handle_store up to output_file.open("wb") and the three fp.write calls,
\* whose bytes the file object buffers
store_begin(s, uid, dataset) ==
    /\ conc[s].pc = "idle"
    /\ events' = _log_event(events, ConcStoreEvent(s), <<>>)
    /\ fs' = OpenWb(fs, OutputFile(uid))
    /\ conc' = [conc EXCEPT ![s] = [pc |-> "open", uid |-> Some(uid),
                                    data |-> Preamble \o Prefix \o ConcFileMeta \o dataset,
                                    path |-> Some(OutputFile(uid)), offset |-> 0,
                                    reply |-> None]]
    /\ UNCHANGED <<diag, peer, getVars, store_images, store, nStores, sessVars, hl7, flat,
                   prevGet, pipe, call, dec, art>>

\* the end of the with block: the buffer is flushed and the file closed
store_close(s) ==
    /\ conc[s].pc = "open"
    /\ fs' = WriteAt(fs, conc[s].path[1], conc[s].offset, conc[s].data)
    /\ conc' = [conc EXCEPT ![s].pc = "closed", ![s].offset = Len(conc[s].data)]
    /\ UNCHANGED <<events, diag, peer, getVars, store_images, store, nStores, sessVars, hl7,
                   flat, prevGet, pipe, call, dec, art>>

\* the store_image event and return SUCCESS
store_log(s) ==
    /\ conc[s].pc = "closed"
    /\ events' = Log(events, [action |-> "store_image",
                              data |-> [path |-> conc[s].path[1],
                                        size |-> StatSize(fs, conc[s].path[1])]])
    /\ conc' = [conc EXCEPT ![s].pc = "done", ![s].reply = Some(SUCCESS)]
    /\ UNCHANGED <<diag, peer, getVars, storeVars, sessVars, hl7, flat, prevGet, pipe, call,
                   dec, art>>

ConcInit ==
    /\ events = <<>>
    /\ diag = <<>>
    /\ peer = [address |-> "10.0.0.1", port |-> 40000]
    /\ GetIdle
    /\ store_images = TRUE
    /\ StoreIdle
    /\ SessIdle
    /\ Hl7Idle
    /\ FlatIdle
    /\ AuxIdle

ConcNext ==
    \E s \in Sessions :
        \/ \E uid \in ConcUids, dataset \in ConcDataSets : store_begin(s, uid, dataset)
        \/ store_close(s)
        \/ store_log(s)

SpecStoreConcurrent == ConcInit /\ [][ConcNext]_vars

\* C21: no two sessions write to the same artifact path, for any interleaving
\* of concurrent store requests: the files being written by different
\* sessions are distinct, and the artifact of a session that has closed its
\* file holds the bytes of that session's request and of no other.
C21_NoSharedArtifact ==
    /\ \A s, t \in Sessions :
        (s # t /\ conc[s].pc = "open" /\ conc[t].pc = "open")
            => conc[s].path # conc[t].path
    /\ \A s \in Sessions :
        conc[s].pc \in {"closed", "done"} => fs[conc[s].path[1]] = conc[s].data

----------------------------------------------------------------------------
(* Two C-GET requests, one after the other, with C-STORE requests before,  *)
(* between and during them: what the first one was asked and what it       *)
(* replied is kept in prevGet when the second one is triggered.            *)

\* identifiers with a scope indicator that differ in the level and in the
\* three filters: which of them are there, and their values
PairIdentifiers ==
    { Some([QueryRetrieveLevel |-> "PATIENT"]),
      Some([QueryRetrieveLevel |-> "SERIES", PatientID |-> "1234567"]),
      Some([QueryRetrieveLevel |-> "SERIES", PatientID |-> "1234567",
            StudyInstanceUID |-> "1.2.3", SeriesInstanceUID |-> "1.2.3.4"]),
      Some([QueryRetrieveLevel |-> "IMAGE", PatientID |-> "7654321",
            StudyInstanceUID |-> "9.8.7", SeriesInstanceUID |-> "9.8.7.6"]) }

\* what the generator read from event.is_cancelled before the instance: the
\* flag was set before the read, which follows the first step
CancelSeen == cancelAt # None /\ cancelAt[1] <= 1

\* the engine calls handle_get for the next C-GET request of the session
next_get(identifier) ==
    /\ gen.op = "get"
    /\ gen.pc = "done"
    /\ prevGet = None
    /\ prevGet' = Some([identifier |-> gen.identifier, replies |-> replies,
                        seen |-> CancelSeen, fs |-> fs])
    /\ gen' = [op |-> "get", identifier |-> identifier, pc |-> "created", idx |-> 0]
    /\ replies' = <<>>
    /\ cancelFlag' = FALSE
    /\ cancelAt' = None
    /\ evMark' = Len(events)
    /\ nRequests' = nRequests + 1
    /\ UNCHANGED <<events, diag, peer, storeVars, sessVars, hl7, flat, conc, pipe, call,
                   dec, art>>

PairInit ==
    /\ events = <<>>
    /\ diag = <<>>
    /\ peer = [address |-> "10.0.0.1", port |-> 40000]
    /\ GetIdle
    /\ store_images = TRUE
    /\ StoreIdle
    /\ SessIdle
    /\ Hl7Idle
    /\ FlatIdle
    /\ AuxIdle

PairNext ==
    \/ \E identifier \in PairIdentifiers : trigger("get", identifier)
    \/ \E identifier \in PairIdentifiers : next_get(identifier)
    \/ peer_cancel
    \/ handle_get
    \/ \E dataset \in {Some(<<8, 0>>), Some(<<8, 0, 5, 0, 16>>)} :
           on_c_store(Some("1.2.3"), Some(<<2, 0, 0, 0>>), dataset, "none")

SpecGetPair == PairInit /\ [][PairNext]_vars

\* both requests have ended, and the generator read the same flag in both
PairEnded ==
    /\ prevGet # None
    /\ gen.op = "get"
    /\ gen.pc = "done"
    /\ CancelSeen = prevGet[1].seen

\* C22: two C-GET requests that carry a scope indicator and see the same
\* cancellation flag produce identical reply sequences, whose instance is
\* the fixed demonstration record, whatever their QueryRetrieveLevel value
\* and filters are and whatever files the store requests wrote.
C22_GetRepliesIndependent ==
    PairEnded =>
        /\ replies = prevGet[1].replies
        /\ \A i \in 1..Len(replies) :
               (replies[i].kind = "pair" /\ replies[i].payload # None)
                   => replies[i].payload = Some(GET_REQUEST_DS)

\* two requests with different levels and filters, the second one after a
\* store request wrote an artifact, both ended with the demonstration record
C22_Witness ==
    /\ PairEnded
    /\ gen.identifier # prevGet[1].identifier
    /\ gen.identifier[1]["QueryRetrieveLevel"] # prevGet[1].identifier[1]["QueryRetrieveLevel"]
    /\ fs # prevGet[1].fs
    /\ Len(replies) = 2
    /\ replies[2].payload = Some(GET_REQUEST_DS)

----------------------------------------------------------------------------
(* One DICOM session as the two threads the engine runs for it.  The       *)
(* provider thread (CustomDUL) reads the PDUs the client has sent, calls   *)
(* _decode_pdu for each and queues the primitive; the association thread   *)
(* takes the primitives off the queue in order and calls the handlers.     *)
(* The client sends the association request, operations, and a release or  *)
(* an abort, and need not wait for an answer before it sends the next PDU. *)

\* the operations a client sends in a P-DATA-TF, by the event they raise
PipeOps == {"echo", "store", "get", "move"}

\* the user identity of the association request: none, or a username
PipeIdentities ==
    {None, Some([user_id_type |-> 1, primary_field |-> USERNAME, secondary_field |-> None])}

\* the PDUs a client sends
PipePdus ==
    {[type |-> <<"A", "ASSOCIATE", "RQ">>, op |-> "none", identity |-> id] :
         id \in PipeIdentities}
    \cup {[type |-> <<"P", "DATA", "TF">>, op |-> op, identity |-> None] : op \in PipeOps}
    \cup {[type |-> t, op |-> "none", identity |-> None] :
              t \in {<<"A", "RELEASE", "RQ">>, <<"A", "ABORT", "RQ">>}}

OpsSent == Len(SelectSeq(pipe.sent, LAMBDA t : t = <<"P", "DATA", "TF">>))

\* CustomAssociationServer.process_request: the connection is logged, then the
\* engine starts the session's threads
pipe_process_request ==
    /\ pipe.pc = "listening"
    /\ events' = Log(events, [action |-> "connection",
                              src_ip |-> peer.address,
                              src_port |-> Some(peer.port)])
    /\ pipe' = [pipe EXCEPT !.pc = "accepted"]
    /\ UNCHANGED <<diag, peer, getVars, storeVars, sessVars, hl7, flat, conc, prevGet, call,
                   dec, art>>

\* the client sends its next PDU: the association request first, a release or
\* an abort last
client_send(pdu) ==
    /\ pipe.pc # "listening"
    /\ IF pipe.sent = <<>> THEN pdu.type = <<"A", "ASSOCIATE", "RQ">>
       ELSE /\ pdu.type # <<"A", "ASSOCIATE", "RQ">>
            /\ pipe.sent[Len(pipe.sent)] \in {<<"A", "ASSOCIATE", "RQ">>, <<"P", "DATA", "TF">>}
            /\ pdu.type = <<"P", "DATA", "TF">> => OpsSent < MaxOps
    /\ pipe' = [pipe EXCEPT !.wire = Append(@, pdu), !.sent = Append(@, pdu.type)]
    /\ UNCHANGED <<events, diag, peer, getVars, storeVars, sessVars, hl7, flat, conc, prevGet,
                   call, dec, art>>

\* the provider thread: CustomDUL._decode_pdu for the next PDU on the wire, then
\* the primitive is queued for the association thread
dul_decode ==
    /\ pipe.pc # "listening"
    /\ pipe.wire # <<>>
    /\ LET pdu == Head(pipe.wire)
       IN  /\ events' = IF PduIsLogged(PduTypeName(pdu.type))
                        THEN Log(events, [action |-> PduTypeName(pdu.type)])
                        ELSE events
           /\ pipe' = [pipe EXCEPT !.wire = Tail(@), !.queue = Append(@, pdu)]
    /\ UNCHANGED <<diag, peer, getVars, storeVars, sessVars, hl7, flat, conc, prevGet, call,
                   dec, art>>

\* the event of an operation, as the handler receives it
PipeEvent(op) ==
    [event |-> IF op = "echo" THEN EVT_C_ECHO
               ELSE IF op = "store" THEN EVT_C_STORE
               ELSE IF op = "get" THEN EVT_C_GET ELSE EVT_C_MOVE,
     has_context |-> TRUE,
     context |-> [abstract_syntax |-> "1.2.840.10008.1.1",
                  transfer_syntax |-> "ImplicitVRLittleEndian"],
     requestor |-> peer,
     identifier |-> None]

\* the association thread: the handler for the next primitive of the queue:
\* handle_login for an identity, handle_event for C-ECHO and C-STORE (store_images
\* is off), handle_get and handle_move up to their audit event
assoc_serve ==
    /\ pipe.pc \in {"accepted", "established"}
    /\ pipe.queue # <<>>
    /\ LET pdu == Head(pipe.queue)
           run == LoginRun(pdu.identity[1] @@ [requestor |-> peer])
       IN  /\ events' =
                 IF pdu.type = <<"A", "ASSOCIATE", "RQ">> /\ pdu.identity # None
                 THEN LogAll(events, run.entries)
                 ELSE IF pdu.type = <<"P", "DATA", "TF">> /\ pipe.pc = "established"
                 THEN IF pdu.op \in {"get", "move"}
                      THEN _log_get_move_event(events, PipeEvent(pdu.op))
                      ELSE _log_event(events, PipeEvent(pdu.op), <<>>)
                 ELSE events
           /\ pipe' = [pipe EXCEPT
                 !.queue = Tail(@),
                 !.pc = IF pdu.type = <<"A", "ASSOCIATE", "RQ">>
                        THEN IF pdu.identity = None \/ run.result = Some(TRUE)
                             THEN "established" ELSE "rejected"
                        ELSE IF pdu.type = <<"P", "DATA", "TF">>
                        THEN IF pipe.pc = "established" THEN "established" ELSE "aborted"
                        ELSE IF pdu.type = <<"A", "RELEASE", "RQ">> THEN "released"
                        ELSE "aborted"]
    /\ UNCHANGED <<diag, peer, getVars, storeVars, sessVars, hl7, flat, conc, prevGet, call,
                   dec, art>>

PipeInit ==
    /\ events = <<>>
    /\ diag = <<>>
    /\ peer = [address |-> "10.0.0.1", port |-> 40000]
    /\ GetIdle
    /\ store_images = FALSE
    /\ StoreIdle
    /\ SessIdle
    /\ Hl7Idle
    /\ FlatIdle
    /\ AuxIdle

PipeNext ==
    \/ pipe_process_request
    \/ \E pdu \in PipePdus : client_send(pdu)
    \/ dul_decode
    \/ assoc_serve

SpecPipeline == PipeInit /\ [][PipeNext]_vars

OperationActions == {"C-ECHO", "C-STORE", "C-GET", "C-MOVE"}

TeardownActions == {"A-RELEASE-RQ", "A-ABORT-RQ"}

\* the connection event is the first event of the session
ConnectionIsFirst == events # <<>> => events[1].action = "connection"

\* the associate-request event precedes every login and operation event
AssociateBeforeLoginAndOperations ==
    \A i \in 1..Len(events) :
        events[i].action \in OperationActions \cup {"login"}
            => \E j \in 1..(i - 1) : events[j].action = "A-ASSOCIATE-RQ"

\* every operation event precedes the release or abort event
OperationsBeforeTeardown ==
    \A i, j \in 1..Len(events) :
        (events[i].action \in OperationActions /\ events[j].action \in TeardownActions)
            => i < j

\* C23: within one session the order of the events is the order of the protocol
\* events, for every interleaving of the decoding path and the handler path:
\* connection first, associate request before login and operations, operations
\* before release or abort.
C23_EventOrderIsProtocolOrder ==
    /\ ConnectionIsFirst
    /\ AssociateBeforeLoginAndOperations
    /\ OperationsBeforeTeardown

----------------------------------------------------------------------------
(* The adapter's entry points when emitting an event fails.  A call of an  *)
(* entry point is made with a fault: none, "log" (the sink's log call      *)
(* raises) or "data" (an expression that builds the event's fields         *)
(* raises).  What the entry point gives back to the engine is computed     *)
(* from where its code has a try and where it has none.                    *)

SinkFaults == {"none", "log", "data"}

\* how a call of an entry point ends: the exception that leaves it (None: none),
\* what it returned, whether the engine got the connection, the diagnostics
Returned(result, diagnostics) ==
    [exc |-> None, result |-> Some(result), diag |-> diagnostics]

Raised(exc) == [exc |-> Some(exc), result |-> None, diag |-> <<>>]

\* the exception a fault raises
FaultExc(fault) == IF fault = "log" THEN "SinkError" ELSE "ValueError"

\* CustomDUL._decode_pdu: the type name, the flattening and the log call are in
\* the try; (pdu, event) is returned after it
decode_pdu_outcome(segs, fault) ==
    IF PduIsLogged(PduTypeName(segs)) /\ fault # "none"
    THEN Returned("pdu, event", <<<<"debug", "decoding PDU">>>>)
    ELSE Returned("pdu, event", <<>>)

\* CustomAssociationServer.process_request: the log call is in no try;
\* super().process_request is called after it
process_request_outcome(is_tuple, fault) ==
    IF fault = "log" THEN Raised(FaultExc(fault))
    ELSE Returned("super().process_request", <<>>)

\* _log_event: the fields and the log call are in the try
log_event_diag(fault) ==
    IF fault # "none" THEN <<<<"debug", "event logging">>>> ELSE <<>>

\* handle_event
handle_event_outcome(fault) == Returned(SUCCESS, log_event_diag(fault))

\* handle_get run to exhaustion by the engine: the steps it yields
GetReplySteps(identifier, flag) ==
    IF ScopeMissing(identifier) THEN <<StatusStep(Some(FAILURE), None)>>
    ELSE <<CountStep(Len(Instances)),
           IF IsCancelled(flag) THEN StatusStep(Some(CANCEL), None)
           ELSE StatusStep(Some(PENDING), Some(Instances[1]))>>

\* handle_get: the event is logged through _log_event
handle_get_outcome(identifier, flag, fault) ==
    Returned(GetReplySteps(identifier, flag), log_event_diag(fault))

MoveReplySteps(identifier) ==
    IF ScopeMissing(identifier) THEN <<StatusStep(Some(FAILURE), None)>>
    ELSE <<MoveDestination>>

\* handle_move
handle_move_outcome(identifier, fault) ==
    Returned(MoveReplySteps(identifier), log_event_diag(fault))

\* handle_login: the sink (or the credential check, which logs the event) is
\* called in no try; the fields of the event are the decoded ones, which the
\* identities drawn here all have
handle_login_outcome(identity, fault) ==
    LET run == LoginRun(identity @@ [requestor |-> peer])
    IN  IF run.exc # None THEN Raised(run.exc[1])
        ELSE IF fault = "log" THEN Raised(FaultExc(fault))
        ELSE Returned(<<run.result[1], None>>, <<>>)

\* handle_store of a request whose artifact is written: the C-STORE event goes
\* through _log_event; the store_image event's size and its log call are in
\* the try of handle_store, whose except returns FAILURE
handle_store_outcome(fault) ==
    IF fault # "none" /\ Catches(FaultExc(fault))
    THEN Returned(FAILURE, <<<<"critical", "store event">>>>)
    ELSE IF fault # "none" THEN Raised(FaultExc(fault))
    ELSE Returned(SUCCESS, <<>>)

\* the identities whose fields decode
DecodableIdentities ==
    {id \in Identities :
        /\ id.primary_field \in {USERNAME, <<195, 169>>}
        /\ id.secondary_field \in {None, Some(PASSWORD), Some(<<120>>)}}

\* the engine calls an entry point; out is how the call ended, base how the
\* same call ends when nothing fails
adapter_call(entry, args, out, base) ==
    /\ call' = [entry |-> entry, args |-> args, out |-> out, base |-> base]
    /\ UNCHANGED <<events, diag, peer, getVars, storeVars, sessVars, hl7, flat, conc, prevGet,
                   pipe, dec, art>>

call_decode_pdu(segs, fault) ==
    adapter_call("_decode_pdu", <<segs, fault>>,
                 decode_pdu_outcome(segs, fault), decode_pdu_outcome(segs, "none"))

call_process_request(is_tuple, fault) ==
    adapter_call("process_request", <<is_tuple, fault>>,
                 process_request_outcome(is_tuple, fault),
                 process_request_outcome(is_tuple, "none"))

call_handle_event(fault) ==
    adapter_call("handle_event", <<fault>>,
                 handle_event_outcome(fault), handle_event_outcome("none"))

call_handle_get(identifier, flag, fault) ==
    adapter_call("handle_get", <<identifier, flag, fault>>,
                 handle_get_outcome(identifier, flag, fault),
                 handle_get_outcome(identifier, flag, "none"))

call_handle_move(identifier, fault) ==
    adapter_call("handle_move", <<identifier, fault>>,
                 handle_move_outcome(identifier, fault),
                 handle_move_outcome(identifier, "none"))

call_handle_login(identity, fault) ==
    adapter_call("handle_login", <<identity, fault>>,
                 handle_login_outcome(identity, fault),
                 handle_login_outcome(identity, "none"))

call_handle_store(fault) ==
    adapter_call("handle_store", <<fault>>,
                 handle_store_outcome(fault), handle_store_outcome("none"))

FaultInit ==
    /\ events = <<>>
    /\ diag = <<>>
    /\ peer = [address |-> "10.0.0.1", port |-> 40000]
    /\ GetIdle
    /\ store_images = TRUE
    /\ StoreIdle
    /\ SessIdle
    /\ Hl7Idle
    /\ FlatIdle
    /\ AuxIdle

FaultNext ==
    \E fault \in SinkFaults :
        \/ \E segs \in PduTypes : call_decode_pdu(segs, fault)
        \/ \E is_tuple \in BOOLEAN : call_process_request(is_tuple, fault)
        \/ call_handle_event(fault)
        \/ \E identifier \in Identifiers, flag \in BOOLEAN :
               call_handle_get(identifier, flag, fault)
        \/ \E identifier \in Identifiers : call_handle_move(identifier, fault)
        \/ \E identity \in DecodableIdentities : call_handle_login(identity, fault)
        \/ call_handle_store(fault)

SpecFault == FaultInit /\ [][FaultNext]_vars

\* C24: an exception raised while an event is built or emitted never leaves the
\* adapter and never changes what the entry point gives back to the engine:
\* every call ends as the same call ends when nothing fails.
C24_EventFailureIsContained ==
    call.entry # "none" =>
        /\ call.out.exc = None
        /\ call.out.result = call.base.result

----------------------------------------------------------------------------
(* The decode hook with the event's data: a decoded PDU is an object of    *)
(* one of the PDU classes, flattened by _dicom_obj_to_dict for the event.  *)

\* CustomDUL._decode_pdu for a PDU of the class named segs: the type name, the
\* flattening and the log call are in the try, whose except writes a debug
\* diagnostic; (pdu, event) is returned in every case
CustomDUL_decode_pdu(segs, pdu) ==
    /\ dec.pc = "idle"
    /\ LET pdu_type == PduTypeName(segs)
           data == _dicom_obj_to_dict(pdu)
       IN  /\ events' = IF PduIsLogged(pdu_type) /\ data.exc = None
                        THEN Log(events, [action |-> pdu_type, data |-> data.result[1]])
                        ELSE events
           /\ diag' = IF PduIsLogged(pdu_type) /\ data.exc # None
                      THEN Append(diag, <<"debug", "decoding PDU">>)
                      ELSE diag
           /\ dec' = [pc |-> "decoded", segs |-> segs, pdu |-> pdu,
                      returned |-> "pdu, event", evMark |-> Len(events)]
    /\ UNCHANGED <<peer, getVars, storeVars, sessVars, hl7, flat, conc, prevGet, pipe, call,
                   art>>

DecodeInit ==
    /\ events = <<>>
    /\ diag = <<>>
    /\ peer = [address |-> "10.0.0.1", port |-> 40000]
    /\ GetIdle
    /\ store_images = FALSE
    /\ StoreIdle
    /\ SessIdle
    /\ Hl7Idle
    /\ FlatIdle
    /\ AuxIdle

\* the PDU objects drawn: a rendering that raises, one of one line, or one of two
\* lines; with or without an application context name, presentation contexts and
\* user data
DecodePdus ==
    [str : {None, Some(JoinLines(<<<<"I", "D", ":", " ", "1">>, <<"A", "B">>>>))}
               \cup {Some(line) : line \in FlatLines},
     application_context_name : {None, Some(<<"1.2.840.10008.3.1.1.1">>)},
     presentation_data_value_items : {NoAttr},
     presentation_context : CompositeValues,
     user_data : {NoAttr, Items(<<Leaf(Some(<<"I", "D", ":", " ", "1">>))>>)}]

DecodeNext ==
    /\ dec.pc = "idle"
    /\ \E segs \in PduTypes, pdu \in DecodePdus : CustomDUL_decode_pdu(segs, pdu)

SpecDecode == DecodeInit /\ [][DecodeNext]_vars

\* the events the decode hook logged for the PDU
DecodeEvents == SubSeq(events, dec.evMark + 1, Len(events))

\* C25: a decoded PDU that is not a P-DATA-TF produces exactly one event, whose
\* action is the type name with dashes for underscores and whose data is the
\* flattened PDU; a decoded P-DATA-TF produces no event.
C25_OneEventPerControlPdu ==
    dec.pc = "decoded" =>
        IF dec.segs = <<"P", "DATA", "TF">>
        THEN DecodeEvents = <<>>
        ELSE /\ Len(DecodeEvents) = 1
             /\ DecodeEvents[1].action = JoinWith(dec.segs, "-")
             /\ _dicom_obj_to_dict(dec.pdu).exc = None
             /\ DecodeEvents[1].data = _dicom_obj_to_dict(dec.pdu).result[1]

----------------------------------------------------------------------------
(* The audit event of C-GET and C-MOVE, checked under SpecGet. *)

\* the events logged since the current request was triggered
RequestEvents == SubSeq(events, evMark + 1, Len(events))

\* a query key as the request presented it: its value, None if it is not there
Presented(identifier, key) ==
    IF identifier # None /\ key \in DOMAIN identifier[1] THEN identifier[1][key]
    ELSE "None"

\* C26: every C-GET and C-MOVE request logs exactly one audit event, with
\* action C-GET or C-MOVE and the four query keys as presented (None for one that
\* is not there); it is logged when the handler's body starts, so no reply
\* step exists without it, also for a request answered FAILURE or one without
\* identifier; before the body runs neither an event nor a step exists.
C26_OneAuditEventBeforeReplies ==
    gen.op \in {"get", "move"} =>
        IF gen.pc = "created"
        THEN RequestEvents = <<>> /\ replies = <<>>
        ELSE /\ Len(RequestEvents) = 1
             /\ RequestEvents[1].action = (IF gen.op = "get" THEN "C-GET" ELSE "C-MOVE")
             /\ \A k \in QueryKeySet :
                    RequestEvents[1].data[k] = Presented(gen.identifier, k)

\* a C-GET request without identifier, answered FAILURE, and its audit event
C26_Witness ==
    /\ gen.op = "get"
    /\ gen.identifier = None
    /\ replies = FailureSequence
    /\ Len(RequestEvents) = 1
    /\ RequestEvents[1].data["PatientID"] = "None"

----------------------------------------------------------------------------
(* The binding of the store handler, checked under SpecStore. *)

\* C27: handle_store is bound to C-STORE if and only if store_images is set.
\* With store_images off every store request is answered SUCCESS by the generic
\* handler, no file is written and the request logs the C-STORE event and
\* nothing else; with it on every store request logs the C-STORE event before
\* any store_image event.
C27_StoreHandlerBinding ==
    store.handler # "none" =>
        /\ store.handler = "handle_store" <=> store_images
        /\ ~store_images =>
              /\ store.handler = "handle_event"
              /\ store.outcome = "returned"
              /\ store.reply = <<SUCCESS>>
              /\ fs = <<>>
              /\ Actions(StoreEvents) = <<"C-STORE">>
              /\ \A i \in 1..Len(events) : events[i].action # "store_image"
        /\ store_images =>
              /\ StoreEvents # <<>>
              /\ StoreEvents[1].action = "C-STORE"
              /\ \A i \in StoreImageEvents : i > 1

\* store_images off: two store requests answered by the generic handler
C27_Witness ==
    /\ ~store_images
    /\ nStores = 2
    /\ store.handler = "handle_event"
    /\ store.uid # None /\ store.file_meta # None /\ store.dataset # None
    /\ store.reply = <<SUCCESS>>
    /\ Actions(events) = <<"C-STORE", "C-STORE">>

----------------------------------------------------------------------------
(* The query event of the HL7 adapter, checked under SpecHl7. *)

\* CustomPDQHandler.reply has returned
PDQReplied == hl7.outcome = "returned" /\ hl7.reply # None

QueryEvents == {i \in 1..Len(events) : events[i].action = "query"}

\* C28: for a message that cannot be parsed, CustomPDQHandler.reply returns the
\* empty string, logs no query event and raises nothing (no diagnostic either);
\* for a parsed message whose query event the sink takes, it logs exactly one
\* query event, after the connection event, and the session's log is
\* connection, query.
C28_QueryEventIffParsed ==
    PDQReplied =>
        /\ hl7.message = None =>
              /\ hl7.reply = <<[frame |-> "none"]>>
              /\ QueryEvents = {}
              /\ diag = <<>>
        /\ (hl7.message # None /\ hl7.fault # "log") =>
              /\ QueryEvents = {2}
              /\ Actions(events) = <<"connection", "query">>

\* a framed message that cannot be parsed was routed to CustomPDQHandler, whose
\* reply returned the empty string
C28_Witness ==
    /\ PDQReplied
    /\ ~hl7.incoming[1].parseable
    /\ hl7.message = None
    /\ hl7.reply = <<[frame |-> "none"]>>
    /\ Actions(events) = <<"connection">>

----------------------------------------------------------------------------
(* The lines _dicom_obj_to_dict keeps, checked under SpecFlatten. *)

\* the line holds exactly one colon, and its label and its value are not empty
\* once the decorative characters are trimmed
KeptLine(line) ==
    LET parts == split(line, ":")
    IN  /\ Len(parts) = 2
        /\ strip(parts[1], KeyChars) # <<>>
        /\ strip(parts[2], ValueChars) # <<>>

\* the entries of the mapping returned that stem from lines of the rendering
LineKeys == DOMAIN flat.result[1] \ AttributeKeys

\* C29 as stated: every entry that stems from a rendered line has a non-empty
\* label and a non-empty value after trimming, and a line is included if and only if it
\* holds exactly one colon with a non-empty label and a non-empty value; every
\* other line is dropped.
C29_OnlyLabelledLinesKept ==
    (flat.pc = "done" /\ flat.exc = None) =>
        /\ \A k \in LineKeys : k # <<>> /\ flat.result[1][k] # <<>>
        /\ LineKeys = {strip(split(FlatObjLines[i], ":")[1], KeyChars) :
                          i \in {j \in 1..Len(FlatObjLines) : KeptLine(FlatObjLines[j])}}

\* the line holds exactly one colon, and its label and its value are not empty
\* as written, before anything is trimmed
TakenLine(line) ==
    LET parts == split(line, ":")
    IN  Len(parts) = 2 /\ parts[1] # <<>> /\ parts[2] # <<>>

TakenLines == {i \in 1..Len(FlatObjLines) : TakenLine(FlatObjLines[i])}

\* C29 as amended: a line is included if and only if it holds exactly one colon
\* with a label and a value that are not empty as written; its entry is the
\* trimmed label with the trimmed value of the last such line, and either may
\* be empty after trimming.
C29_NonEmptyAsWritten ==
    (flat.pc = "done" /\ flat.exc = None) =>
        /\ LineKeys = {strip(split(FlatObjLines[i], ":")[1], KeyChars) : i \in TakenLines}
        /\ \A i \in TakenLines :
              LET parts == split(FlatObjLines[i], ":")
                  same == {j \in TakenLines :
                              strip(split(FlatObjLines[j], ":")[1], KeyChars)
                                  = strip(parts[1], KeyChars)}
              IN  (\A j \in same : j <= i)
                      => flat.result[1][strip(parts[1], KeyChars)]
                             = strip(parts[2], ValueChars)

\* a rendering with the line " : ": the mapping has an entry with empty label
\* and empty value
C29_Witness ==
    /\ flat.pc = "done"
    /\ flat.exc = None
    /\ \E i \in 1..Len(FlatObjLines) : FlatObjLines[i] = <<" ", ":", " ">>
    /\ <<>> \in LineKeys
    /\ flat.result[1][<<>>] = <<>>

----------------------------------------------------------------------------
(* The path of an artifact.  An identifier is the sequence of its          *)
(* characters and a path the sequence of its segments, so that             *)
(* storage_dir / identifier and the walk the system makes when it opens    *)
(* the path are computed.                                                  *)

\* length of the identifiers drawn
MaxUidLen == 5

\* the characters of the identifiers drawn: a digit, the dot, the separator
UidChars == {"1", ".", "/"}

ArtUids == UNION {[1..n -> UidChars] : n \in 1..MaxUidLen}

\* Path("/tmp/dicom_storage"), as segments below the root
StorageDirParts ==
    <<<<"t", "m", "p">>,
      <<"d", "i", "c", "o", "m", "_", "s", "t", "o", "r", "a", "g", "e">>>>

\* the directories that exist: the root, /tmp, and storage_dir, which __init__
\* makes with its parents
ExistingDirs == {<<>>, <<StorageDirParts[1]>>, StorageDirParts}

\* the segments of a path written as text: empty segments and "." are dropped
Segments(text) ==
    SelectSeq(split(text, "/"), LAMBDA seg : seg # <<>> /\ seg # <<".">>)

\* storage_dir / uid: an absolute right operand replaces the left one
PathJoin(dir, text) ==
    IF text # <<>> /\ Head(text) = "/" THEN Segments(text) ELSE dir \o Segments(text)

\* the directory a path names once ".." segments are followed from cur, or
\* None when a directory on the way does not exist
RECURSIVE WalkDirs(_, _)
WalkDirs(cur, segs) ==
    IF segs = <<>> THEN Some(cur)
    ELSE LET next == IF Head(segs) = <<".", ".">>
                     THEN (IF cur = <<>> THEN <<>> ELSE SubSeq(cur, 1, Len(cur) - 1))
                     ELSE Append(cur, Head(segs))
         IN  IF next \in ExistingDirs THEN WalkDirs(next, Tail(segs)) ELSE None

\* output_file.open("wb"): the file the system creates for the path (None when
\* the open raises: a directory on the way is missing, or the path names a
\* directory)
OpenTarget(path) ==
    IF path = <<>> THEN None
    ELSE LET parent == WalkDirs(<<>>, SubSeq(path, 1, Len(path) - 1))
             name == path[Len(path)]
         IN  IF parent = None \/ name = <<".", ".">> THEN None
             ELSE IF Append(parent[1], name) \in ExistingDirs THEN None
             ELSE Some(Append(parent[1], name))

\* handle_store up to output_file.open("wb") for a request with this identifier
open_output_file(uid) ==
    /\ art.pc = "idle"
    /\ art' = [pc |-> "opened", uid |-> uid,
               output_file |-> PathJoin(StorageDirParts, uid),
               target |-> OpenTarget(PathJoin(StorageDirParts, uid))]
    /\ UNCHANGED <<events, diag, peer, getVars, storeVars, sessVars, hl7, flat, conc, prevGet,
                   pipe, call, dec>>

PathInit ==
    /\ events = <<>>
    /\ diag = <<>>
    /\ peer = [address |-> "10.0.0.1", port |-> 40000]
    /\ GetIdle
    /\ store_images = TRUE
    /\ StoreIdle
    /\ SessIdle
    /\ Hl7Idle
    /\ FlatIdle
    /\ AuxIdle

PathNext ==
    /\ art.pc = "idle"
    /\ \E uid \in ArtUids : open_output_file(uid)

SpecPath == PathInit /\ [][PathNext]_vars

\* the path is a direct child of storage_dir
DirectChild(path) ==
    /\ Len(path) = Len(StorageDirParts) + 1
    /\ SubSeq(path, 1, Len(StorageDirParts)) = StorageDirParts
    /\ path[Len(path)] # <<".", ".">>

\* C30: for every instance identifier a peer can present, also one with path
\* separators, parent-directory segments or an absolute path, the path
\* handle_store opens for writing is a direct child of storage_dir, and so is
\* every artifact it writes.
C30_ArtifactInsideStorageDir ==
    art.pc = "opened" =>
        /\ DirectChild(art.output_file)
        /\ art.target # None => DirectChild(art.target[1])

====
